---- MODULE Spec2Model ----
(***************************************************************************)
(* Model of the adaptive RAG serving core of the WealthAdvisor assistant:  *)
(* the confidence gate with its CA review queue (confidence_scorer.py,     *)
(* hallucination_detector.py) and the per-session conversational memory    *)
(* (memory.py, rag.py).                                                    *)
(*                                                                         *)
(* Numbers.  The gate computes with floats; the model computes with exact  *)
(* fractions.  A component score s is kept as the integer 1200*s, a        *)
(* confidence c as the integer 24000*c, an input of a sub-scorer (a        *)
(* similarity, the intent confidence) x as the integer 60*x.  Every        *)
(* constant of the source (0.4, 0.65, 1/2.4, 0.15, the weights) is an      *)
(* integer at these scales.  Rounded values (round(x, 4), "%.2f") are      *)
(* integers of ten-thousandths and of hundredths.                          *)
(***************************************************************************)
EXTENDS Integers, Sequences, FiniteSets, TLC

VARIABLES
    \* confidence_scorer.py
    hallucination_available,  \* HALLUCINATION_AVAILABLE: did the import succeed
    ca_review_queue,          \* _ca_review_queue, index 1 is the left end
    result,                   \* what the last ConfidenceScorer.score returned
    call,                     \* the last score call: its inputs and its unrounded confidence
    nCalls,                   \* number of score calls made
    \* memory.py
    sessions,                 \* _sessions: session id -> its MemoryEntry (an object id)
    entries,                  \* the MemoryEntry objects ever built, by object id (a sequence)
    now,                      \* time.time(), in seconds
    ret,                      \* the last memory operation and what it returned
    accessed_at,              \* session id -> time of its last get_memory
    served,                   \* the exchanges saved so far, in order: [sid, tag, entry]
    nOps,                     \* number of memory operations, sweeps excepted, begun
    evicted,                  \* the MemoryEntry objects a sweep has deleted from _sessions
    \* the request threads of the server (Flask's app.run is threaded)
    thr,                      \* thread -> where it is in its request, and its locals
    removed_live,             \* session ids a sweep deleted although a request had
                              \* touched them after the sweep judged them stale
    \* rl_recommender.py
    bandit,                   \* _bandit: None, or [stats, total_selections] of the LinUCBBandit
    session_rl,               \* _session_rl_states: session id -> SessionRLState
    weights_file,             \* the file at WEIGHTS_PATH: None when absent
    chosen,                   \* session id -> what its latest select_strategy returned
    upd,                      \* per thread: how far its bandit.update call has got
    rl_ret,                   \* the last bandit operation and what it returned
    nRl,                      \* number of bandit operations made
    \* rlhf_pipeline.py
    feedback_store,           \* the records of FEEDBACK_FILE, in the order written
    arms,                     \* LinUCBUpdater._arms: arm name -> its statistics
    prefs,                    \* RetrievalFeedback._prefs: query hash -> counts
    clock,                    \* time.time(), in days
    report,                   \* what the last RLHFPipeline.run returned
    unprocessed,              \* feedback recorded since the last run; -1 before the first run
    nRlhf,                    \* number of pipeline operations made
    run_thr,                  \* per thread: how far its RLHFPipeline.run call has got
    \* embeddings.py
    cache,                    \* the files of the cache directory: text -> file content
    cache_stats,              \* _cache_stats: hits and misses
    provider_calls,           \* the texts handed to the embedding model, in order
    emb_ret,                  \* the last embed_query / embed_documents call and its result
    nEmb                      \* number of embedding calls made

gateVars == <<hallucination_available, ca_review_queue, result, call, nCalls>>
memVars  == <<sessions, entries, now, ret, accessed_at, served, nOps, evicted>>
thrVars  == <<thr, removed_live>>
rlVars   == <<bandit, session_rl, weights_file, chosen, upd, rl_ret, nRl>>

rlhfVars == <<feedback_store, arms, prefs, clock, report, unprocessed, nRlhf, run_thr>>

embVars == <<cache, cache_stats, provider_calls, emb_ret, nEmb>>

vars == <<gateVars, memVars, thrVars, rlVars, rlhfVars, embVars>>

\* Python's None (a record, so that it compares with the records it stands in for)
None == [none |-> TRUE]

Min(a, b) == IF a <= b THEN a ELSE b
Max(a, b) == IF a >= b THEN a ELSE b

\* n/d rounded to the nearest integer, ties to even (Python's round); d > 0, n >= 0
RoundDiv(n, d) ==
    LET q == n \div d
        r == n % d
    IN  IF 2 * r < d THEN q
        ELSE IF 2 * r > d THEN q + 1
        ELSE IF q % 2 = 0 THEN q ELSE q + 1

(***************************************************************************)
(* Scales                                                                  *)
(***************************************************************************)
InputOne == 3 * 20              \* 1.0 as a sub-scorer input
ScoreOne == 60 * 20             \* 1.0 as a component score
ConfOne  == 60 * 20 * 20        \* 1.0 as a confidence

(***************************************************************************)
(* hallucination_detector.py                                               *)
(***************************************************************************)

\* FACT_REGISTRY.  triggers: does the fact list trigger phrases; wrong_rates
\* and wrong_amounts are kept in the normalised form _rate_present and
\* _amount_present compare ("1,00,000" and "100000" are the same string
\* once commas are removed, and both entries are kept).
Fact(cat, trig, rates, amounts) ==
    [category |-> cat, triggers |-> trig, wrong_rates |-> rates, wrong_amounts |-> amounts]

FACT_REGISTRY ==
    [ new_regime_slab_3l_5l     |-> Fact("regime", TRUE, <<>>, <<>>),
      new_regime_slab_above_15l |-> Fact("regime", TRUE, <<>>, <<>>),
      rebate_87a_new_regime     |-> Fact("regime", FALSE, <<>>, <<>>),
      rebate_87a_old_regime     |-> Fact("regime", FALSE, <<>>, <<>>),
      stcg_111a_rate            |-> Fact("capital_gains", TRUE, <<"15%">>, <<>>),
      ltcg_112a_rate            |-> Fact("capital_gains", TRUE, <<"10%">>, <<>>),
      ltcg_112a_exemption       |-> Fact("capital_gains", TRUE, <<>>, <<"1lakh", "100000", "100000">>),
      tds_194c_individual       |-> Fact("tds", TRUE, <<>>, <<>>),
      tds_194c_company          |-> Fact("tds", TRUE, <<>>, <<>>),
      tds_194ia                 |-> Fact("tds", TRUE, <<>>, <<>>),
      tds_194j_professional     |-> Fact("tds", TRUE, <<>>, <<>>),
      tds_194j_technical        |-> Fact("tds", TRUE, <<>>, <<>>),
      gst_gold                  |-> Fact("gst", TRUE, <<>>, <<>>),
      gst_making_charges        |-> Fact("gst", TRUE, <<>>, <<>>),
      gst_restaurant_ac         |-> Fact("gst", TRUE, <<>>, <<>>),
      epf_employee              |-> Fact("payroll", TRUE, <<>>, <<>>),
      esic_employee             |-> Fact("payroll", TRUE, <<>>, <<>>),
      esic_employer             |-> Fact("payroll", TRUE, <<>>, <<>>),
      advance_tax_jun           |-> Fact("advance_tax", TRUE, <<>>, <<>>),
      advance_tax_sep           |-> Fact("advance_tax", TRUE, <<>>, <<>>),
      advance_tax_dec           |-> Fact("advance_tax", TRUE, <<>>, <<>>),
      advance_tax_mar           |-> Fact("advance_tax", TRUE, <<>>, <<>>) ]

\* the registry's keys in the order the dict lists (and check visits) them
FACT_ORDER ==
    << "new_regime_slab_3l_5l", "new_regime_slab_above_15l", "rebate_87a_new_regime",
       "rebate_87a_old_regime", "stcg_111a_rate", "ltcg_112a_rate", "ltcg_112a_exemption",
       "tds_194c_individual", "tds_194c_company", "tds_194ia", "tds_194j_professional",
       "tds_194j_technical", "gst_gold", "gst_making_charges", "gst_restaurant_ac",
       "epf_employee", "esic_employee", "esic_employer", "advance_tax_jun",
       "advance_tax_sep", "advance_tax_dec", "advance_tax_mar" >>

\* HallucinationDetector.__init__: threshold = 0.3, kept as the fraction 3/10
HALL_THRESHOLD_NUM == 3
HALL_THRESHOLD_DEN == 10

\* A text is seen by the detector through three facts about it: the registry
\* facts one of whose trigger phrases occurs in it (triggered), and the
\* normalised rate and amount strings that occur in it (rates, amounts).

\* the findings _check_fact appends for the wrong values of one kind
findings_of(fact_key, found, severity) ==
    [i \in 1..Len(found) |-> [fact_key |-> fact_key, found |-> found[i], severity |-> severity]]

\* _check_fact: one finding of severity high per wrong rate that is present,
\* one of severity critical per wrong amount entry that is present.
check_fact(text, fact_key, fact) ==
    findings_of(fact_key, SelectSeq(fact.wrong_rates, LAMBDA w : w \in text.rates), "high")
    \o
    findings_of(fact_key, SelectSeq(fact.wrong_amounts, LAMBDA w : w \in text.amounts), "critical")

\* the loop of check: is this fact checked against the text (neither `continue`
\* taken); a query_category that is None or empty (falsy) is the string ""
fact_is_checked(query_category, fact, any_trigger) ==
    /\ ~(query_category # "" /\ fact.category # query_category /\ ~any_trigger)
    /\ ~(fact.triggers /\ ~any_trigger)

\* one pass of check's loop: is the fact checked, and the findings it gives
fact_outcome(text, query_category, fact_key, fact) ==
    [ checked  |-> fact_is_checked(query_category, fact,
                                   fact.triggers /\ fact_key \in text.triggered),
      findings |-> check_fact(text, fact_key, fact) ]

\* findings.extend(fact_findings) over the checked facts, in order
RECURSIVE extend_findings(_, _)
extend_findings(outcomes, i) ==
    IF i > Len(outcomes) THEN <<>>
    ELSE outcomes[i].findings \o extend_findings(outcomes, i + 1)

\* what check returns (as the dict of check_answer) from the counters and the
\* findings of its loop; confidence = (facts_checked - facts_passed) / facts_checked,
\* or 0.0 when nothing was checked
hallucination_result(facts_checked, facts_passed, findings, ca_review) ==
    [ is_hallucination |->
          /\ facts_checked # 0
          /\ (facts_checked - facts_passed) * HALL_THRESHOLD_DEN
                 >= HALL_THRESHOLD_NUM * facts_checked
          /\ Len(findings) > 0,
      confidence       |-> IF facts_checked = 0 THEN 0
                           ELSE RoundDiv((facts_checked - facts_passed) * 10000, facts_checked),
      needs_ca_review  |-> ca_review,
      facts_checked    |-> facts_checked,
      facts_passed     |-> facts_passed,
      findings         |-> findings ]

\* the end of check's loop, from the outcomes of the facts that were checked
check_outcomes(checked) ==
    hallucination_result(
        Len(checked),
        Len(SelectSeq(checked, LAMBDA o : Len(o.findings) = 0)),
        extend_findings(checked, 1),
        \E i \in 1..Len(checked) : \E j \in 1..Len(checked[i].findings) :
            checked[i].findings[j].severity \in {"high", "critical"})

\* HallucinationDetector.check
hallucination_check(text, query_category) ==
    check_outcomes(
        SelectSeq([i \in 1..Len(FACT_ORDER) |->
                      fact_outcome(text, query_category, FACT_ORDER[i],
                                   FACT_REGISTRY[FACT_ORDER[i]])],
                  LAMBDA o : o.checked))

(***************************************************************************)
(* memory.py: the session store.  A MemoryEntry and the                    *)
(* ConversationBufferWindowMemory it wraps are one object of `entries`;    *)
(* its messages are the chat_memory.messages of the wrapped memory.        *)
(***************************************************************************)
MEMORY_WINDOW_SIZE == 5            \* the default of the environment variable
DEFAULT_MAX_AGE    == 3600         \* evict_stale_sessions(max_age_seconds=3600.0)

SessionIds == {"s1", "s2"}
Threads    == {"t1", "t2"}

\* a thread between two requests
Idle ==
    [ pc |-> "idle", sid |-> "", tag |-> 0, entry |-> 0, size0 |-> 0,
      visited |-> {}, stale |-> <<>>, retouched |-> {}, err |-> "" ]

\* the state of the module right after import
MemoryFresh ==
    /\ sessions = <<>>
    /\ entries = <<>>
    /\ now = 0
    /\ ret = None
    /\ accessed_at = <<>>
    /\ served = <<>>
    /\ nOps = 0
    /\ evicted = {}
    /\ thr = [t \in Threads |-> Idle]
    /\ removed_live = {}

\* rlhf_pipeline.py: LinUCBUpdater.ARMS and a new ArmStats (its A and b are
\* never written by the pipeline and are left out); numbers are <<n, d>>
ARMS == << "retrieval_only", "intent_boosted", "sentiment_adapted",
           "entity_focused", "full_pipeline" >>
ArmStats == [n_samples |-> 0, total_reward |-> <<0, 1>>, avg_reward |-> <<0, 1>>]

\* embeddings.py at import, with an empty cache directory
CacheFresh ==
    /\ cache = <<>>
    /\ cache_stats = [hits |-> 0, misses |-> 0]
    /\ provider_calls = <<>>
    /\ emb_ret = None
    /\ nEmb = 0

\* a thread that is not inside RLHFPipeline.run
NotRunning == [pc |-> "idle", records |-> <<>>, n_samples |-> 0]

\* RLHFPipeline() with no feedback, weights or preference file on disk
PipelineFresh ==
    /\ feedback_store = <<>>
    /\ arms = [a \in {ARMS[i] : i \in 1..Len(ARMS)} |-> ArmStats]
    /\ prefs = <<>>
    /\ clock = 0
    /\ report = None
    /\ unprocessed = -1
    /\ nRlhf = 0
    /\ run_thr = [t \in Threads |-> NotRunning]

\* a thread that is not inside LinUCBBandit.update
NotUpdating == [pc |-> "idle", action_idx |-> 0, context |-> <<>>, reward |-> 0]

\* rl_recommender.py at import: no bandit constructed yet
LearningFresh ==
    /\ bandit = None
    /\ session_rl = <<>>
    /\ weights_file = None
    /\ chosen = <<>>
    /\ upd = [t \in Threads |-> NotUpdating]
    /\ rl_ret = None
    /\ nRl = 0

\* MemoryEntry.__init__
MemoryEntry(session_id, window_size, t) ==
    [ session_id |-> session_id, window_size |-> window_size,
      created_at |-> t, last_accessed |-> t, messages |-> <<>> ]

\* (a variant: every MemoryEntry is the first object ever built)
first_entry_id(heap) == 1

\* the object a new MemoryEntry becomes: a fresh one
new_entry_id(heap) == Len(heap) + 1

\* MemoryEntry.touch
touch(entry, t) == [entry EXCEPT !.last_accessed = t]

\* MemoryEntry.age_seconds
age_seconds(entry, t) == t - entry.last_accessed

\* (a variant: a session idle for exactly max_age_seconds is stale too)
is_stale_inclusive(entry, t, max_age_seconds) == age_seconds(entry, t) >= max_age_seconds

\* the test of evict_stale_sessions
is_stale(entry, t, max_age_seconds) == age_seconds(entry, t) > max_age_seconds

\* (a variant: the window counts messages, not exchanges)
load_last_k_messages(entry) ==
    IF entry.window_size > 0
    THEN SubSeq(entry.messages,
                Max(1, Len(entry.messages) - entry.window_size + 1),
                Len(entry.messages))
    ELSE <<>>

\* ConversationBufferWindowMemory(k).load_memory_variables: the last k exchanges
\* (2k messages) of the stored messages, nothing when k is not positive
load_memory_variables(entry) ==
    IF entry.window_size > 0
    THEN SubSeq(entry.messages,
                Max(1, Len(entry.messages) - 2 * entry.window_size + 1),
                Len(entry.messages))
    ELSE <<>>

\* ConversationBufferWindowMemory.save_context: the question, then the answer
save_context(entry, tag) ==
    [entry EXCEPT !.messages = @ \o << [type |-> "human", content |-> tag],
                                       [type |-> "ai", content |-> tag] >>]

\* a function with one more (or one changed) mapping
Put(f, k, v) == [x \in DOMAIN f \cup {k} |-> IF x = k THEN v ELSE f[x]]
\* a function without some of its keys
Without(f, ks) == [x \in DOMAIN f \ ks |-> f[x]]

\* get_memory(session_id, window_size), as [sessions, entries, memory]: a new
\* entry when the id is absent, the entry touched, its memory returned
get_memory(sess, heap, session_id, window_size, t) ==
    IF session_id \notin DOMAIN sess
    THEN [ sessions |-> Put(sess, session_id, new_entry_id(heap)),
           entries  |-> Append(heap, touch(MemoryEntry(session_id, window_size, t), t)),
           memory   |-> new_entry_id(heap) ]
    ELSE [ sessions |-> sess,
           entries  |-> [heap EXCEPT ![sess[session_id]] = touch(@, t)],
           memory   |-> sess[session_id] ]

\* the session ids evict_stale_sessions collects in `stale`
stale_sessions(sess, heap, t, max_age_seconds) ==
    {sid \in DOMAIN sess : is_stale(heap[sess[sid]], t, max_age_seconds)}

\* evict_stale_sessions(max_age_seconds), as [sessions, evicted]
evict_stale_sessions(sess, heap, t, max_age_seconds) ==
    [ sessions |-> Without(sess, stale_sessions(sess, heap, t, max_age_seconds)),
      evicted  |-> Cardinality(stale_sessions(sess, heap, t, max_age_seconds)) ]

\* ---- the operations, one call at a time ----
WindowSizes == {0, 1, MEMORY_WINDOW_SIZE}
MaxAges     == {1, DEFAULT_MAX_AGE}
TickSteps   == {1, DEFAULT_MAX_AGE}

\* get_memory(session_id, window_size) called on its own
GetMemory(s, w) ==
    /\ sessions' = get_memory(sessions, entries, s, w, now).sessions
    /\ entries'  = get_memory(sessions, entries, s, w, now).entries
    /\ ret' = [ op |-> "get_memory", n |-> nOps + 1, sid |-> s,
                value |-> get_memory(sessions, entries, s, w, now).memory ]
    /\ accessed_at' = Put(accessed_at, s, now)
    /\ nOps' = nOps + 1
    /\ UNCHANGED <<now, served, evicted>>

\* clear_session(session_id)
ClearSession(s) ==
    /\ sessions' = Without(sessions, {s})
    /\ ret' = [ op |-> "clear_session", n |-> nOps + 1, sid |-> s,
                value |-> s \in DOMAIN sessions ]
    /\ nOps' = nOps + 1
    /\ UNCHANGED <<entries, now, accessed_at, served, evicted>>

\* evict_stale_sessions(max_age_seconds) called on its own
EvictStaleSessions(a) ==
    /\ sessions' = evict_stale_sessions(sessions, entries, now, a).sessions
    /\ ret' = [ op |-> "evict_stale_sessions", n |-> nOps + 1, max_age |-> a,
                value |-> evict_stale_sessions(sessions, entries, now, a).evicted ]
    /\ evicted' = evicted \cup {sessions[s] : s \in stale_sessions(sessions, entries, now, a)}
    /\ nOps' = nOps + 1
    /\ UNCHANGED <<entries, now, accessed_at, served>>

\* (a variant: the question is saved before the answer is generated)
QuestionSavedFirst(s, tag, sweep, ok, g) ==
    /\ sessions' = g.sessions
    /\ entries' = IF ok THEN [g.entries EXCEPT ![g.memory] = save_context(@, tag)]
                  ELSE [g.entries EXCEPT ![g.memory].messages =
                            Append(@, [type |-> "human", content |-> tag])]
    /\ ret' = [ op |-> "query", n |-> tag, sid |-> s, sweep |-> sweep, value |-> ok,
                raised |-> ~ok, memory |-> g.memory,
                chat_history |-> load_memory_variables(g.entries[g.memory]) ]
    /\ served' = IF ok THEN Append(served, [sid |-> s, tag |-> tag, entry |-> g.memory,
                                            orphan |-> g.memory \in evicted'])
                 ELSE served

\* what RAGPipeline.query does to the store once the sweep, if any, is over
\* and _build_chain has got the memory (g: what get_memory gave): the chain
\* loads its history, generates (ok: it did not raise) and saves the exchange
QueryAfterSweep(s, tag, sweep, ok, g) ==
    /\ sessions' = g.sessions
    /\ entries' = IF ok THEN [g.entries EXCEPT ![g.memory] = save_context(@, tag)]
                  ELSE g.entries
    /\ ret' = [ op |-> "query", n |-> tag, sid |-> s, sweep |-> sweep, value |-> ok,
                raised |-> ~ok, memory |-> g.memory,
                chat_history |-> load_memory_variables(g.entries[g.memory]) ]
    /\ served' = IF ok THEN Append(served, [sid |-> s, tag |-> tag, entry |-> g.memory,
                                            orphan |-> g.memory \in evicted'])
                 ELSE served

\* RAGPipeline.query(question, session_id); sweep: random.random() < 0.01;
\* the question is the tag nOps + 1, so that every exchange can be told apart
Query(s, sweep, ok) ==
    /\ evicted' = IF sweep
                  THEN evicted \cup {sessions[x] : x \in stale_sessions(sessions, entries,
                                                            now, DEFAULT_MAX_AGE)}
                  ELSE evicted
    /\ QueryAfterSweep(s, nOps + 1, sweep, ok,
          get_memory(
              IF sweep THEN evict_stale_sessions(sessions, entries, now, DEFAULT_MAX_AGE).sessions
              ELSE sessions,
              entries, s, MEMORY_WINDOW_SIZE, now))
    /\ accessed_at' = Put(accessed_at, s, now)
    /\ nOps' = nOps + 1
    /\ UNCHANGED now

\* time passes
Tick(d) ==
    /\ now' = now + d
    /\ nOps' = nOps + 1
    /\ UNCHANGED <<sessions, entries, ret, accessed_at, served, evicted>>

MemInit ==
    /\ hallucination_available = TRUE
    /\ ca_review_queue = <<>>
    /\ result = None
    /\ call = None
    /\ nCalls = 0
    /\ MemoryFresh
    /\ LearningFresh
    /\ PipelineFresh
    /\ CacheFresh

\* ---- the window: long conversations, no clock ----
MaxWindowOps == 7

WindowNext ==
    /\ nOps < MaxWindowOps
    /\ UNCHANGED <<gateVars, thrVars, rlVars, rlhfVars, embVars>>
    /\ \/ \E s \in SessionIds, w \in WindowSizes : GetMemory(s, w)
       \/ \E s \in SessionIds, ok \in BOOLEAN : Query(s, FALSE, ok)

SpecWindow == MemInit /\ [][WindowNext]_vars

\* ---- the store: creation, access, clearing, eviction, under a clock ----
MaxMemOps == 5

MemNext ==
    /\ nOps < MaxMemOps
    /\ UNCHANGED <<gateVars, thrVars, rlVars, rlhfVars, embVars>>
    /\ \/ \E s \in SessionIds : GetMemory(s, MEMORY_WINDOW_SIZE)
       \/ \E s \in SessionIds, sweep \in BOOLEAN, ok \in BOOLEAN : Query(s, sweep, ok)
       \/ \E s \in SessionIds : ClearSession(s)
       \/ \E a \in MaxAges : EvictStaleSessions(a)
       \/ \E d \in TickSteps : Tick(d)

SpecMem == MemInit /\ [][MemNext]_vars

(***************************************************************************)
(* The same code run by several request threads at once.  Nothing in       *)
(* memory.py or rag.py takes a lock, so a thread may be pre-empted between *)
(* any two of the steps below; each step is one dictionary or attribute    *)
(* operation of the code.                                                  *)
(***************************************************************************)
\* thread t moves on to the locals `rec`; the other threads stay where they are
Only(t, rec) == [thr EXCEPT ![t] = rec]

\* thread t touches or creates session sid: the same, and every sweep that
\* holds sid in its `stale` list has now seen it touched after judging it
Touching(t, rec, sid) ==
    [u \in Threads |->
        IF u = t THEN rec
        ELSE IF \E i \in 1..Len(thr[u].stale) : thr[u].stale[i] = sid
             THEN [thr[u] EXCEPT !.retouched = @ \cup {sid}]
             ELSE thr[u]]

\* the request raised: the thread serves nothing more
Raise(t, err) == Only(t, [thr[t] EXCEPT !.pc = "failed", !.err = err])

\* the request returned
Return(t) == Only(t, Idle)

\* POST /chat arrives at thread t: RAGPipeline.query(question, s) begins;
\* sweep: random.random() < 0.01
StartQuery(t, s, sweep) ==
    /\ thr[t].pc = "idle"
    /\ thr' = Only(t, [thr[t] EXCEPT !.pc = IF sweep THEN "sweep_begin" ELSE "gm_check",
                                      !.sid = s, !.tag = nOps + 1])
    /\ nOps' = nOps + 1
    /\ UNCHANGED <<sessions, entries, now, ret, accessed_at, served, evicted, removed_live>>

\* thread t begins clear_session(s)
StartClear(t, s) ==
    /\ thr[t].pc = "idle"
    /\ thr' = Only(t, [thr[t] EXCEPT !.pc = "cl_check", !.sid = s])
    /\ nOps' = nOps + 1
    /\ UNCHANGED <<sessions, entries, now, ret, accessed_at, served, evicted, removed_live>>

\* evict_stale_sessions: _sessions.items() is opened for iteration
SweepBegin(t) ==
    /\ thr[t].pc = "sweep_begin"
    /\ thr' = Only(t, [thr[t] EXCEPT !.pc = "sweep_next",
                                      !.size0 = Cardinality(DOMAIN sessions),
                                      !.visited = {}, !.stale = <<>>, !.retouched = {}])
    /\ UNCHANGED <<memVars, removed_live>>

\* evict_stale_sessions: one turn of the list comprehension.  The dictionary
\* iterator raises when the dictionary's size is no longer the size it had
\* when the iteration began, or when it finds one more session after having
\* given that many; otherwise it gives the next session (the model keeps no
\* insertion order: any session not yet visited), whose age is tested
SweepNext(t) ==
    /\ thr[t].pc = "sweep_next"
    /\ IF Cardinality(DOMAIN sessions) # thr[t].size0
       THEN thr' = Raise(t, "evict_stale_sessions: RuntimeError")
       ELSE IF DOMAIN sessions \ thr[t].visited = {}
       THEN thr' = Only(t, [thr[t] EXCEPT !.pc = "sweep_del"])
       ELSE IF Cardinality(thr[t].visited) >= thr[t].size0
       THEN thr' = Raise(t, "evict_stale_sessions: RuntimeError")
       ELSE \E k \in DOMAIN sessions \ thr[t].visited :
               thr' = Only(t, [thr[t] EXCEPT
                         !.visited = @ \cup {k},
                         !.stale = IF is_stale(entries[sessions[k]], now, DEFAULT_MAX_AGE)
                                   THEN Append(@, k) ELSE @])
    /\ UNCHANGED <<memVars, removed_live>>

\* evict_stale_sessions: one turn of `for sid in stale: del _sessions[sid]`,
\* or the return when the list is done
SweepDel(t) ==
    /\ thr[t].pc = "sweep_del"
    /\ IF thr[t].stale = <<>>
       THEN /\ thr' = Only(t, [thr[t] EXCEPT !.pc = "gm_check"])
            /\ UNCHANGED <<sessions, evicted, removed_live>>
       ELSE IF Head(thr[t].stale) \notin DOMAIN sessions
       THEN /\ thr' = Raise(t, "evict_stale_sessions: KeyError")
            /\ UNCHANGED <<sessions, evicted, removed_live>>
       ELSE /\ sessions' = Without(sessions, {Head(thr[t].stale)})
            /\ evicted' = evicted \cup {sessions[Head(thr[t].stale)]}
            /\ removed_live' = removed_live \cup ({Head(thr[t].stale)} \cap thr[t].retouched)
            /\ thr' = Only(t, [thr[t] EXCEPT !.stale = Tail(@)])
    /\ UNCHANGED <<entries, now, ret, accessed_at, served, nOps>>

\* get_memory: `if session_id not in _sessions`
GmCheck(t) ==
    /\ thr[t].pc = "gm_check"
    /\ thr' = Only(t, [thr[t] EXCEPT !.pc = IF thr[t].sid \in DOMAIN sessions
                                            THEN "gm_read" ELSE "gm_create"])
    /\ UNCHANGED <<memVars, removed_live>>

\* get_memory: `_sessions[session_id] = MemoryEntry(session_id, window_size)`
GmCreate(t) ==
    /\ thr[t].pc = "gm_create"
    /\ entries' = Append(entries, MemoryEntry(thr[t].sid, MEMORY_WINDOW_SIZE, now))
    /\ sessions' = Put(sessions, thr[t].sid, new_entry_id(entries))
    /\ thr' = Touching(t, [thr[t] EXCEPT !.pc = "gm_read"], thr[t].sid)
    /\ UNCHANGED <<now, ret, accessed_at, served, nOps, evicted, removed_live>>

\* get_memory: `entry = _sessions[session_id]`
GmRead(t) ==
    /\ thr[t].pc = "gm_read"
    /\ thr' = IF thr[t].sid \in DOMAIN sessions
              THEN Only(t, [thr[t] EXCEPT !.pc = "gm_touch", !.entry = sessions[thr[t].sid]])
              ELSE Raise(t, "get_memory: KeyError")
    /\ UNCHANGED <<memVars, removed_live>>

\* get_memory: `entry.touch()`, and the memory is returned to _build_chain
GmTouch(t) ==
    /\ thr[t].pc = "gm_touch"
    /\ entries' = [entries EXCEPT ![thr[t].entry] = touch(@, now)]
    /\ accessed_at' = Put(accessed_at, thr[t].sid, now)
    /\ thr' = Touching(t, [thr[t] EXCEPT !.pc = "chain"], thr[t].sid)
    /\ UNCHANGED <<sessions, now, ret, served, nOps, evicted, removed_live>>

\* chain({"question": question}): the history is loaded and the answer
\* generated (ok), or the chain raises
ChainCall(t, ok) ==
    /\ thr[t].pc = "chain"
    /\ thr' = IF ok THEN Only(t, [thr[t] EXCEPT !.pc = "chain_save"])
              ELSE Raise(t, "chain")
    /\ UNCHANGED <<memVars, removed_live>>

\* the chain saves the exchange into the memory it was built with, and
\* query returns
ChainSave(t) ==
    /\ thr[t].pc = "chain_save"
    /\ entries' = [entries EXCEPT ![thr[t].entry] = save_context(@, thr[t].tag)]
    /\ served' = Append(served, [sid |-> thr[t].sid, tag |-> thr[t].tag,
                                 entry |-> thr[t].entry,
                                 orphan |-> thr[t].entry \in evicted])
    /\ thr' = Return(t)
    /\ UNCHANGED <<sessions, now, ret, accessed_at, nOps, evicted, removed_live>>

\* clear_session: `if session_id in _sessions`
ClCheck(t) ==
    /\ thr[t].pc = "cl_check"
    /\ thr' = IF thr[t].sid \in DOMAIN sessions
              THEN Only(t, [thr[t] EXCEPT !.pc = "cl_del"])
              ELSE Return(t)
    /\ UNCHANGED <<memVars, removed_live>>

\* clear_session: `del _sessions[session_id]`
ClDel(t) ==
    /\ thr[t].pc = "cl_del"
    /\ IF thr[t].sid \in DOMAIN sessions
       THEN sessions' = Without(sessions, {thr[t].sid}) /\ thr' = Return(t)
       ELSE thr' = Raise(t, "clear_session: KeyError") /\ UNCHANGED sessions
    /\ UNCHANGED <<entries, now, ret, accessed_at, served, nOps, evicted, removed_live>>

\* time passes between requests
Elapse(d) ==
    /\ \A t \in Threads : thr[t].pc \in {"idle", "failed"}
    /\ now' = now + d
    /\ UNCHANGED <<sessions, entries, ret, accessed_at, served, nOps, evicted, thrVars>>

\* ---- parallel requests, no sweep ----
MaxRequests == 3            \* requests served in all

RaceNext ==
    /\ UNCHANGED <<gateVars, rlVars, rlhfVars, embVars>>
    /\ \E t \in Threads :
          \/ \E s \in SessionIds : nOps < MaxRequests /\ StartQuery(t, s, FALSE)
          \/ GmCheck(t)
          \/ GmCreate(t)
          \/ GmRead(t)
          \/ GmTouch(t)
          \/ \E ok \in BOOLEAN : ChainCall(t, ok)
          \/ ChainSave(t)

SpecRace == MemInit /\ [][RaceNext]_vars

\* ---- parallel requests, some of them sweeping, and clear_session ----
MaxSweepRequests == 3       \* requests and clear_session calls served in all
MaxElapsed == 3601          \* the clock stops here

SweepNextStep ==
    /\ UNCHANGED <<gateVars, rlVars, rlhfVars, embVars>>
    /\ \/ \E t \in Threads :
             \/ \E s \in SessionIds, sweep \in BOOLEAN :
                   nOps < MaxSweepRequests /\ StartQuery(t, s, sweep)
             \/ \E s \in SessionIds : nOps < MaxSweepRequests /\ StartClear(t, s)
             \/ SweepBegin(t)
             \/ SweepNext(t)
             \/ SweepDel(t)
             \/ GmCheck(t)
             \/ GmCreate(t)
             \/ GmRead(t)
             \/ GmTouch(t)
             \/ ChainCall(t, TRUE)
             \/ ChainSave(t)
             \/ ClCheck(t)
             \/ ClDel(t)
       \/ now + (DEFAULT_MAX_AGE + 1) <= MaxElapsed /\ Elapse(DEFAULT_MAX_AGE + 1)

SpecSweep == MemInit /\ [][SweepNextStep]_vars

(***************************************************************************)
(* rl_recommender.py: the LinUCB bandit.  The float64 numbers of the code  *)
(* are exact rationals <<numerator, denominator>> here, in lowest terms    *)
(* with a positive denominator.                                            *)
(***************************************************************************)
Abs(n) == IF n < 0 THEN -n ELSE n

RECURSIVE GCD(_, _)
GCD(a, b) == IF b = 0 THEN a ELSE GCD(b, a % b)

\* the rational n/d (d > 0) in lowest terms
Rat(n, d) == <<n \div GCD(Abs(n), d), d \div GCD(Abs(n), d)>>
Zero == <<0, 1>>
One  == <<1, 1>>
RNeg(a) == <<-a[1], a[2]>>
RMulBy(a, b, g1, g2) == <<(a[1] \div g1) * (b[1] \div g2), (a[2] \div g2) * (b[2] \div g1)>>
RMul(a, b) == RMulBy(a, b, GCD(Abs(a[1]), b[2]), GCD(Abs(b[1]), a[2]))
RAddBy(a, b, g) == Rat(a[1] * (b[2] \div g) + b[1] * (a[2] \div g), (a[2] \div g) * b[2])
RAdd(a, b) == RAddBy(a, b, GCD(a[2], b[2]))
RSub(a, b) == RAdd(a, RNeg(b))
RInv(a) == IF a[1] > 0 THEN <<a[2], a[1]>> ELSE <<-a[2], -a[1]>>
RDiv(a, b) == RMul(a, RInv(b))
RLess(a, b) == (b[1] * a[2]) > (a[1] * b[2])

\* ACTIONS of the source (a reserved word here)
ACTION_NAMES == << "retrieval_only", "intent_boosted", "sentiment_adapted",
                   "entity_focused", "full_pipeline" >>
N_ACTIONS == Len(ACTION_NAMES)
CONTEXT_DIM == 11
ALPHA == <<1, 2>>                  \* the default of the environment variable RL_ALPHA
Arms == 0..(N_ACTIONS - 1)
Dim  == 1..CONTEXT_DIM

\* build_context_vector: intent one-hot, sentiment signals, session statistics
intent_idx(intent) ==
    CASE intent = "budget" -> 0 [] intent = "investment" -> 1
      [] intent = "tax" -> 2 [] intent = "savings" -> 3 [] OTHER -> 0
level_val(level) ==
    CASE level = "high" -> One [] level = "medium" -> <<1, 2>> [] OTHER -> Zero
polarity_val(polarity) ==
    CASE polarity = "positive" -> One [] polarity = "negative" -> Zero [] OTHER -> <<1, 2>>
build_context_vector(intent, anxiety_level, urgency_level, confidence_level, polarity, exchange_count, avg_feedback) ==
    [i \in 1..4 |-> IF i = intent_idx(intent) + 1 THEN One ELSE Zero]
    \o << level_val(anxiety_level), level_val(urgency_level),
          IF confidence_level = "high" THEN One ELSE Zero, polarity_val(polarity) >>
    \o << IF exchange_count >= 10 THEN One ELSE Rat(exchange_count, 10),
          RMul(RAdd(avg_feedback, One), <<1, 2>>), One >>

\* a numpy array: the elements of f, computed once and stored
array(f) == f \o <<>>

\* numpy: eye, zeros, outer, @, and the in-place sums of update
eye   == array([i \in Dim |-> array([j \in Dim |-> IF i = j THEN One ELSE Zero])])
zeros == array([i \in Dim |-> Zero])
outer(x, y) == array([i \in Dim |-> array([j \in Dim |-> RMul(x[i], y[j])])])
matrix_add(A, B) == array([i \in Dim |-> array([j \in Dim |-> RAdd(A[i][j], B[i][j])])])
vector_add(u, v) == array([i \in Dim |-> RAdd(u[i], v[i])])
scaled(r, x) == array([i \in Dim |-> RMul(r, x[i])])
RECURSIVE dot_from(_, _, _)
dot_from(u, v, i) ==
    IF i > CONTEXT_DIM THEN Zero ELSE RAdd(RMul(u[i], v[i]), dot_from(u, v, i + 1))
dot(u, v) == dot_from(u, v, 1)

\* ActionStats(): A = identity, b = 0
ActionStats == [A |-> eye, b |-> zeros]

\* Gauss-Jordan elimination of the rows M (a matrix with right-hand sides
\* appended), column k onwards, without row exchanges; <<>> when a pivot is 0
row_minus(row, pivot_row, f) ==
    array([j \in DOMAIN row |-> IF pivot_row[j][1] = 0 THEN row[j]
                                ELSE RSub(row[j], RMul(f, pivot_row[j]))])
eliminate_column(M, k) ==
    array([i \in Dim |-> IF i = k \/ M[i][k][1] = 0 THEN M[i]
                         ELSE row_minus(M[i], M[k], RDiv(M[i][k], M[k][k]))])
RECURSIVE gauss_jordan(_, _)
gauss_jordan(M, k) ==
    IF k > CONTEXT_DIM THEN M
    ELSE IF M[k][k][1] = 0 THEN <<>>
    ELSE gauss_jordan(eliminate_column(M, k), k + 1)

\* np.linalg.solve(A, u) and np.linalg.inv(A) @ v at once, as <<A^-1 u, A^-1 v>>;
\* <<>> when numpy raises LinAlgError (here: a zero pivot)
reduced(A, u, v) == gauss_jordan(array([i \in Dim |-> A[i] \o <<u[i], v[i]>>]), 1)
solutions(M) ==
    IF M = <<>> THEN <<>>
    ELSE << array([i \in Dim |-> RDiv(M[i][CONTEXT_DIM + 1], M[i][i])]),
            array([i \in Dim |-> RDiv(M[i][CONTEXT_DIM + 2], M[i][i])]) >>
solve2(A, u, v) == solutions(reduced(A, u, v))

\* floor(sqrt(N)) and the remainder, digit by digit over the decimal pairs of N
Pow100 == <<1, 100, 10000, 1000000, 100000000>>
int_digit(p, cur) == CHOOSE d \in 0..9 : /\ (20 * p + d) * d <= cur
                                         /\ d = 9 \/ (20 * p + d + 1) * (d + 1) > cur
int_step(p, cur, d) == <<10 * p + d, cur - (20 * p + d) * d>>
RECURSIVE sqrt_int(_, _, _)
sqrt_int(pr, N, k) ==
    IF k = 0 THEN pr
    ELSE sqrt_int(int_step(pr[1], 100 * pr[2] + ((N \div Pow100[k]) % 100),
                           int_digit(pr[1], 100 * pr[2] + ((N \div Pow100[k]) % 100))),
                  N, k - 1)
\* k further decimal digits of the root: floor(10^k * sqrt(N)) from floor(sqrt(N))
frac_digit(p, rem) == CHOOSE d \in 0..9 :
    /\ p * d + (d * d + 19) \div 20 <= 5 * rem
    /\ d = 9 \/ p * (d + 1) + ((d + 1) * (d + 1) + 19) \div 20 > 5 * rem
frac_step(p, rem, d, last) ==
    <<10 * p + d, IF last THEN 0 ELSE 20 * (5 * rem - p * d) - d * d>>
RECURSIVE sqrt_frac(_, _)
sqrt_frac(pr, k) ==
    IF k = 0 THEN pr[1]
    ELSE sqrt_frac(frac_step(pr[1], pr[2], frac_digit(pr[1], pr[2]), k = 1), k - 1)
floor_sqrt_e4(N) == sqrt_frac(sqrt_int(<<0, 0>>, N, 5), 4)

\* round(mean + sqrt(q2), 4) in units of 1/10000, l the common denominator
round4_by(mean, q2, l) ==
    (20000 * mean[1] * (l \div mean[2]) + l
       + floor_sqrt_e4(4 * (l \div q2[2]) * (l \div q2[2]) * q2[1] * q2[2])) \div (2 * l)
round4(mean, q2) == round4_by(mean, q2, mean[2] * (q2[2] \div GCD(mean[2], q2[2])))

\* one arm of select_action: theta = solve(A, b), mean = theta @ context,
\* uncertainty = alpha * sqrt(context @ inv(A) @ context)
arm_estimate(sol, context) ==
    IF sol = <<>> THEN [raised |-> TRUE, mean |-> Zero, variance |-> Zero]
    ELSE [raised |-> FALSE, mean |-> dot(sol[1], context), variance |-> dot(context, sol[2])]
estimate(stat, context) == arm_estimate(solve2(stat.A, stat.b, context), context)
ucb_of(est, alpha) ==
    IF est.raised \/ est.variance[1] < 0 THEN [raised |-> TRUE, ucb |-> 0]
    ELSE [raised |-> FALSE, ucb |-> round4(est.mean, RMul(RMul(alpha, alpha), est.variance))]
ucb_score(stat, context, alpha) == ucb_of(estimate(stat, context), alpha)

\* max(range(N_ACTIONS), key=...): the first index with the largest score
best_idx(ucb_scores) ==
    CHOOSE i \in Arms : \A j \in Arms : /\ ucb_scores[j].ucb <= ucb_scores[i].ucb
                                        /\ j < i => ucb_scores[j].ucb < ucb_scores[i].ucb

\* select_action: one score per arm (each computed once and stored) and the
\* best index
evaluated(f) == f @@ <<>>
ucb_scores_of(b, x) == evaluated([a \in Arms |-> ucb_score(b.stats[a], x, ALPHA)])
selection(x, scores) == [context |-> x, ucb_scores |-> scores, action_idx |-> best_idx(scores)]
select_action(b, x) == selection(x, ucb_scores_of(b, x))

\* LinUCBBandit.update on the arm's statistics; reward is +1 or -1
\* (a variant that subtracts the outer product)
downdate_stats(stat, context, reward) ==
    [A |-> matrix_add(stat.A, outer(scaled(RNeg(One), context), context)),
     b |-> vector_add(stat.b, scaled(reward, context))]
\* (a variant that adds the context whatever the reward)
unsigned_update_stats(stat, context, reward) ==
    [A |-> matrix_add(stat.A, outer(context, context)),
     b |-> vector_add(stat.b, context)]
update_stats(stat, context, reward) ==
    [A |-> matrix_add(stat.A, outer(context, context)),
     b |-> vector_add(stat.b, scaled(reward, context))]

\* LinUCBBandit() when no weights file exists
fresh_bandit ==
    [stats |-> [a \in Arms |-> ActionStats], total_selections |-> [a \in Arms |-> 0]]

\* the context vectors the service can build for a session with ten or more
\* exchanges and no feedback so far
Intents == {"budget", "tax"}
Signals == { [anxiety_level |-> "low",  polarity |-> "negative"],
             [anxiety_level |-> "high", polarity |-> "positive"] }
Contexts ==
    { build_context_vector(i, g.anxiety_level, "low", "low", g.polarity, 10, Zero) :
        i \in Intents, g \in Signals }
Rewards == {One, RNeg(One)}

\* _save: pickle.dump of the statistics into the file opened with "wb".
\* disk is what the file system does: "ok"; "denied", open raises and the file
\* is as before; "full", the file was truncated by open and the dump failed.
\* Either exception is caught and logged.
pickled(b) == [kind |-> "weights", stats |-> b.stats, selections |-> b.total_selections]
save(b, file, disk) ==
    CASE disk = "ok" -> pickled(b)
      [] disk = "denied" -> file
      [] OTHER -> [kind |-> "truncated"]

\* select_action(context): one score per arm, the best arm's counter advanced
SelectAction(x) ==
    /\ bandit # None
    /\ UNCHANGED <<session_rl, weights_file, chosen>>
    /\ nRl' = nRl + 1
    /\ rl_ret' = [op |-> "select_action", n |-> nRl + 1] @@ select_action(bandit, x)
    /\ bandit' = IF \E a \in Arms : rl_ret'.ucb_scores[a].raised THEN bandit
                 ELSE [bandit EXCEPT !.total_selections[rl_ret'.action_idx] = @ + 1]

\* update(action_idx, context, reward); the estimate at the context before and
\* after is kept for the record
Update(a, x, r) ==
    /\ bandit # None
    /\ nRl' = nRl + 1
    /\ bandit' = [bandit EXCEPT !.stats[a] = update_stats(@, x, r)]
    /\ weights_file' = save(bandit', weights_file, "ok")
    /\ UNCHANGED <<session_rl, chosen>>
    /\ rl_ret' = [op |-> "update", n |-> nRl + 1, action_idx |-> a, context |-> x,
                  reward |-> r,
                  before |-> estimate(bandit.stats[a], x),
                  after  |-> estimate(bandit'.stats[a], x)]

BanditInit ==
    /\ MemoryFresh
    /\ hallucination_available = TRUE
    /\ ca_review_queue = <<>>
    /\ result = None
    /\ call = None
    /\ nCalls = 0
    /\ bandit = fresh_bandit
    /\ session_rl = <<>>
    /\ weights_file = None
    /\ chosen = <<>>
    /\ upd = [t \in Threads |-> NotUpdating]
    /\ rl_ret = None
    /\ nRl = 0
    /\ PipelineFresh
    /\ CacheFresh

\* ---- one bandit, any sequence of select_action and update ----
MaxBanditOps == 4
BanditArms == {0}

BanditNext ==
    /\ nRl < MaxBanditOps
    /\ UNCHANGED <<gateVars, memVars, thrVars, upd, rlhfVars, embVars>>
    /\ \/ \E x \in Contexts : SelectAction(x)
       \/ \E a \in BanditArms, x \in Contexts, r \in Rewards : Update(a, x, r)

SpecBandit == BanditInit /\ [][BanditNext]_vars

\* ---- one bandit, updates of two arms, three contexts of one session ----
MaxArmOps == 3
UpdatedArms == {0, 1}
ArmContexts ==
    { build_context_vector("budget", "high", "low", "low", "negative", 10, One),
      build_context_vector("investment", "low", "low", "low", "negative", 10, One),
      build_context_vector("budget", "medium", "high", "high", "positive", 5, One) }

ArmsNext ==
    /\ nRl < MaxArmOps
    /\ UNCHANGED <<gateVars, memVars, thrVars, upd, rlhfVars, embVars>>
    /\ \/ \E x \in ArmContexts : SelectAction(x)
       \/ \E a \in UpdatedArms, x \in ArmContexts, r \in Rewards : Update(a, x, r)

SpecArms == BanditInit /\ [][ArmsNext]_vars

(***************************************************************************)
(* rl_recommender.py: the module-level bandit, the per-session state,      *)
(* select_strategy and record_feedback.  An Optional field is <<>> for     *)
(* None; last_action_idx holds <<i>> for the index i.                      *)
(***************************************************************************)
\* _load: the pickled statistics when the file can be read; any exception is
\* caught and logged and the bandit stays as __init__ built it
load(file) ==
    IF file = None THEN fresh_bandit
    ELSE IF file.kind = "weights"
         THEN [stats |-> file.stats, total_selections |-> file.selections]
         ELSE fresh_bandit

\* get_bandit(): the singleton, constructed (and loaded) on first use
get_bandit(b, file) == IF b = None THEN load(file) ELSE b

SessionRLState ==
    [exchange_count |-> 0, feedback_sum |-> 0, feedback_count |-> 0,
     last_action_idx |-> <<>>, last_context |-> <<>>]
avg_feedback(state) ==
    IF state.feedback_count > 0 THEN Rat(state.feedback_sum, state.feedback_count) ELSE Zero

\* (a variant with one state shared by all sessions)
shared_rl_state(states, session_id) ==
    IF DOMAIN states = {} THEN SessionRLState
    ELSE states[CHOOSE k \in DOMAIN states : TRUE]
get_session_rl_state(states, session_id) ==
    IF session_id \in DOMAIN states THEN states[session_id] ELSE SessionRLState

\* the requests' signals: intent and sentiment (urgency and confidence low)
StrategyInputs ==
    { [intent |-> "budget", anxiety_level |-> "low", polarity |-> "negative"],
      [intent |-> "tax",    anxiety_level |-> "low", polarity |-> "negative"] }
Ratings == {"up", "down"}
reward_of(rating) == IF rating = "up" THEN 1 ELSE -1

\* select_strategy: the exchange counted, the context built from the counted
\* state, the arm selected and both stored for the attribution of feedback
counted(state) == [state EXCEPT !.exchange_count = @ + 1]
context_of(state, in) ==
    build_context_vector(in.intent, in.anxiety_level, "low", "low", in.polarity,
                         state.exchange_count, avg_feedback(state))

SelectStrategy(session_id, in) ==
    /\ nRl' = nRl + 1
    /\ rl_ret' = [op |-> "select_strategy", n |-> nRl + 1, session_id |-> session_id,
                  signals |-> in, raised |-> FALSE]
                 @@ select_action(get_bandit(bandit, weights_file),
                                  context_of(counted(get_session_rl_state(session_rl, session_id)), in))
    /\ bandit' = [get_bandit(bandit, weights_file)
                    EXCEPT !.total_selections[rl_ret'.action_idx] = @ + 1]
    /\ session_rl' = Put(session_rl, session_id,
                         [counted(get_session_rl_state(session_rl, session_id))
                            EXCEPT !.last_action_idx = <<rl_ret'.action_idx>>,
                                   !.last_context = rl_ret'.context])
    /\ chosen' = Put(chosen, session_id,
                     [action_idx |-> rl_ret'.action_idx, context |-> rl_ret'.context])
    /\ UNCHANGED weights_file

\* record_feedback: nothing to attribute -> a warning and return; otherwise
\* the session's feedback counted and the stored arm updated with the stored
\* context, then _save
has_selection(state) == state.last_action_idx # <<>> /\ state.last_context # <<>>
\* (a variant that counts the rating before looking for a selection)
counted_anyway(state, reward) ==
    [state EXCEPT !.feedback_sum = @ + reward, !.feedback_count = @ + 1]
unattributed(state, reward) == state
attributed(state, reward) ==
    [state EXCEPT !.feedback_sum = @ + reward, !.feedback_count = @ + 1]
updated_bandit(b, state, reward) ==
    [b EXCEPT !.stats[state.last_action_idx[1]] =
                 update_stats(@, state.last_context, <<reward, 1>>)]

FeedbackFor(session_id, rating, state, disk) ==
    IF has_selection(state)
    THEN /\ session_rl' = Put(session_rl, session_id, attributed(state, reward_of(rating)))
         /\ bandit' = updated_bandit(get_bandit(bandit, weights_file), state, reward_of(rating))
         /\ weights_file' = save(bandit', weights_file, disk)
         /\ rl_ret' = [op |-> "record_feedback", n |-> nRl + 1, session_id |-> session_id,
                       rating |-> rating, updated |-> TRUE, disk |-> disk, raised |-> FALSE]
    ELSE /\ session_rl' = Put(session_rl, session_id, unattributed(state, reward_of(rating)))
         /\ bandit' = get_bandit(bandit, weights_file)
         /\ weights_file' = weights_file
         /\ rl_ret' = [op |-> "record_feedback", n |-> nRl + 1, session_id |-> session_id,
                       rating |-> rating, updated |-> FALSE, disk |-> disk, raised |-> FALSE]

RecordFeedback(session_id, rating, disk) ==
    /\ nRl' = nRl + 1
    /\ FeedbackFor(session_id, rating, get_session_rl_state(session_rl, session_id), disk)
    /\ UNCHANGED chosen

StrategyInit ==
    /\ MemoryFresh
    /\ hallucination_available = TRUE
    /\ ca_review_queue = <<>>
    /\ result = None
    /\ call = None
    /\ nCalls = 0
    /\ LearningFresh
    /\ PipelineFresh
    /\ CacheFresh

\* ---- two sessions asking for strategies and rating the answers ----
MaxStrategyOps == 4

StrategyNext ==
    /\ nRl < MaxStrategyOps
    /\ UNCHANGED <<gateVars, memVars, thrVars, upd, rlhfVars, embVars>>
    /\ \/ \E sid \in SessionIds, in \in StrategyInputs : SelectStrategy(sid, in)
       \/ \E sid \in SessionIds, rating \in Ratings : RecordFeedback(sid, rating, "ok")

SpecStrategy == StrategyInit /\ [][StrategyNext]_vars

\* ---- the weights file: failing writes and restarts of the process ----
\* the process ends (crash or restart) and starts again: the module-level
\* state is as at import, the file is what it was
Restart ==
    /\ nRl' = nRl + 1
    /\ bandit' = None
    /\ session_rl' = <<>>
    /\ chosen' = <<>>
    /\ rl_ret' = [op |-> "restart", n |-> nRl + 1]
    /\ UNCHANGED weights_file

Disk == {"ok", "denied", "full"}
MaxPersistOps == 4

PersistNext ==
    /\ nRl < MaxPersistOps
    /\ UNCHANGED <<gateVars, memVars, thrVars, upd, rlhfVars, embVars>>
    /\ \/ \E sid \in SessionIds, in \in StrategyInputs : SelectStrategy(sid, in)
       \/ \E sid \in SessionIds, rating \in Ratings, disk \in Disk :
             RecordFeedback(sid, rating, disk)
       \/ Restart

SpecPersist == StrategyInit /\ [][PersistNext]_vars

\* ---- bandit.update called by two threads at once: no lock in the code ----
\* line 197, stats.A += np.outer(context, context)
UpdateA(t, a, x, r) ==
    /\ upd[t].pc = "idle"
    /\ upd' = [upd EXCEPT ![t] = [pc |-> "A_added", action_idx |-> a, context |-> x,
                                  reward |-> r]]
    /\ bandit' = [bandit EXCEPT !.stats[a].A = matrix_add(@, outer(x, x))]
    /\ UNCHANGED weights_file

\* line 198, stats.b += reward * context
UpdateB(t) ==
    /\ upd[t].pc = "A_added"
    /\ upd' = [upd EXCEPT ![t].pc = "b_added"]
    /\ bandit' = [bandit EXCEPT !.stats[upd[t].action_idx].b =
                      vector_add(@, scaled(<<upd[t].reward, 1>>, upd[t].context))]
    /\ UNCHANGED weights_file

\* line 199, self._save(), and the return
UpdateSave(t) ==
    /\ upd[t].pc = "b_added"
    /\ upd' = [upd EXCEPT ![t].pc = "returned"]
    /\ weights_file' = save(bandit, weights_file, "ok")
    /\ UNCHANGED bandit

ConcurrentNext ==
    /\ UNCHANGED <<gateVars, memVars, thrVars, session_rl, chosen, rl_ret, nRl, rlhfVars, embVars>>
    /\ \E t \in Threads :
          \/ \E a \in BanditArms, x \in Contexts, r \in {1, -1} : UpdateA(t, a, x, r)
          \/ UpdateB(t)
          \/ UpdateSave(t)

SpecConcurrent == BanditInit /\ [][ConcurrentNext]_vars

\* ---- select_strategy and record_feedback of one session on two threads ----
\* select_strategy up to line 301, state.last_action_idx = action_idx: the
\* context is still to be stored.  `chosen` keeps every selection made, by
\* the number of the call.
SelectStoreIdx(t, session_id, in) ==
    /\ upd[t].pc = "idle"
    /\ nRl' = nRl + 1
    /\ rl_ret' = [op |-> "select_strategy", n |-> nRl + 1, session_id |-> session_id,
                  signals |-> in, raised |-> FALSE]
                 @@ select_action(get_bandit(bandit, weights_file),
                                  context_of(counted(get_session_rl_state(session_rl, session_id)), in))
    /\ bandit' = [get_bandit(bandit, weights_file)
                    EXCEPT !.total_selections[rl_ret'.action_idx] = @ + 1]
    /\ session_rl' = Put(session_rl, session_id,
                         [counted(get_session_rl_state(session_rl, session_id))
                            EXCEPT !.last_action_idx = <<rl_ret'.action_idx>>])
    /\ upd' = [upd EXCEPT ![t] = [pc |-> "idx_stored", action_idx |-> rl_ret'.action_idx,
                                  context |-> rl_ret'.context, reward |-> 0]]
    /\ chosen' = Put(chosen, nRl + 1,
                     [action_idx |-> rl_ret'.action_idx, context |-> rl_ret'.context])
    /\ UNCHANGED weights_file

\* line 302, state.last_context = context, and the return
SelectStoreContext(t, session_id) ==
    /\ upd[t].pc = "idx_stored"
    /\ session_rl' = [session_rl EXCEPT ![session_id].last_context = upd[t].context]
    /\ upd' = [upd EXCEPT ![t] = NotUpdating]
    /\ UNCHANGED <<bandit, weights_file, chosen, rl_ret, nRl>>

MaxParallelOps == 4
ParallelSession == "s1"

ParallelNext ==
    /\ UNCHANGED <<gateVars, memVars, thrVars, rlhfVars, embVars>>
    /\ \/ /\ nRl < MaxParallelOps
          /\ \E t \in Threads, in \in StrategyInputs : SelectStoreIdx(t, ParallelSession, in)
       \/ \E t \in Threads : SelectStoreContext(t, ParallelSession)
       \/ /\ nRl < MaxParallelOps
          /\ \E rating \in Ratings : RecordFeedback(ParallelSession, rating, "ok")
          /\ UNCHANGED upd

SpecParallel == StrategyInit /\ [][ParallelNext]_vars

\* ---- a fresh bandit asked again and again with identical inputs ----
MaxExploreCalls == 100

ExploreNext ==
    /\ nRl < MaxExploreCalls
    /\ UNCHANGED <<gateVars, memVars, thrVars, upd, rlhfVars, embVars>>
    /\ \E sid \in SessionIds, in \in StrategyInputs :
          /\ rl_ret # None => (rl_ret.session_id = sid /\ rl_ret.signals = in)
          /\ SelectStrategy(sid, in)

SpecExplore == StrategyInit /\ [][ExploreNext]_vars

(***************************************************************************)
(* rlhf_pipeline.py: feedback records and the weekly run.  Time is in      *)
(* days; rewards are rationals.                                            *)
(***************************************************************************)
WEEK == 7
REWARD_MAP(signal) ==
    CASE signal = "thumbs_up" -> <<1, 1>>   [] signal = "thumbs_down" -> <<-1, 2>>
      [] signal = "ca_approved" -> <<3, 2>> [] signal = "ca_rejected" -> <<-1, 1>>
      [] signal = "ca_corrected" -> <<3, 2>>

\* FeedbackCollector.record: one more line in the feedback file
FeedbackRecord(action, query, signal, ts) ==
    [ts |-> ts, action |-> action, query |-> query, signal |-> signal,
     reward |-> REWARD_MAP(signal)]

\* FeedbackCollector.load_since: the records with ts >= since_ts
load_since(store, since_ts) == SelectSeq(store, LAMBDA d : d.ts >= since_ts)

\* RewardModel.compute: the discount GAMMA ** (age_w - 1) is 1 for a record
\* at most a week old, which every record of a default run is
compute(record, t) == CASE t - record.ts <= WEEK -> record.reward

\* LinUCBUpdater.update: per arm the number and the sum of the rewards of the
\* records naming it; records of unknown arms are skipped
RECURSIVE reward_sum(_, _, _)
reward_sum(records, arm_name, t) ==
    IF records = <<>> THEN Zero
    ELSE RAdd(IF Head(records).action = arm_name THEN compute(Head(records), t) ELSE Zero,
              reward_sum(Tail(records), arm_name, t))
n_new(records, arm_name) == Len(SelectSeq(records, LAMBDA d : d.action = arm_name))
arm_update(arm, n, sum) ==
    [n_samples |-> arm.n_samples + n,
     total_reward |-> RAdd(arm.total_reward, sum),
     avg_reward |-> RDiv(RAdd(arm.total_reward, sum), <<Max(1, arm.n_samples + n), 1>>)]
linucb_update(stats, records, t) ==
    [a \in DOMAIN stats |->
        IF n_new(records, a) = 0 THEN stats[a]
        ELSE arm_update(stats[a], n_new(records, a), reward_sum(records, a, t))]

\* RetrievalFeedback.update: per md5 of the lower-cased query the counts of
\* records with a positive and with a non-positive reward
query_key(query) == IF query = "Save Tax?" THEN "save tax?" ELSE query
\* setdefault's new entry, and the entry after one record's reward is counted
new_entry == [positive |-> 0, negative |-> 0]
\* (a variant that counts every record as positive)
counted_positive(entry, reward) == [entry EXCEPT !.positive = @ + 1]
counted_entry(entry, reward) ==
    IF reward[1] > 0 THEN [entry EXCEPT !.positive = @ + 1]
                     ELSE [entry EXCEPT !.negative = @ + 1]
entry_of(p, key) == IF key \in DOMAIN p THEN p[key] ELSE new_entry
RECURSIVE retrieval_update(_, _)
retrieval_update(p, records) ==
    IF records = <<>> THEN p
    ELSE retrieval_update(
            Put(p, query_key(Head(records).query),
                counted_entry(entry_of(p, query_key(Head(records).query)),
                              Head(records).reward)),
            Tail(records))

\* RetrievalFeedback.preference_score
score_of_entry(entry) ==
    IF entry.positive + entry.negative = 0 THEN <<1, 2>>
    ELSE Rat(entry.positive, entry.positive + entry.negative)
preference_score(p, query) ==
    IF query_key(query) \in DOMAIN p THEN score_of_entry(p[query_key(query)]) ELSE <<1, 2>>

RlhfActions == {"retrieval_only", "full_pipeline", "unknown_arm"}
Queries == {"save tax?", "Save Tax?"}
SignalTypes == {"thumbs_up", "thumbs_down"}

\* RLHFPipeline.record_feedback
PipelineRecordFeedback(action, query, signal) ==
    /\ feedback_store' = Append(feedback_store, FeedbackRecord(action, query, signal, clock))
    /\ unprocessed' = IF unprocessed < 0 THEN unprocessed ELSE unprocessed + 1
    /\ nRlhf' = nRlhf + 1
    /\ UNCHANGED <<arms, prefs, clock, report>>

\* RLHFPipeline.run() with the default cutoff of the last 7 days
RunWith(records) ==
    IF records = <<>>
    THEN /\ report' = [status |-> "no_new_feedback", records |-> 0]
         /\ UNCHANGED <<arms, prefs>>
    ELSE /\ arms' = linucb_update(arms, records, clock)
         /\ prefs' = retrieval_update(prefs, records)
         /\ report' = [status |-> "success", records_processed |-> Len(records)]

Run ==
    /\ RunWith(load_since(feedback_store, clock - WEEK))
    /\ unprocessed' = 0
    /\ nRlhf' = nRlhf + 1
    /\ UNCHANGED <<feedback_store, clock>>

\* time passes
Days == {1, WEEK}
Pass(d) ==
    /\ clock' = clock + d
    /\ nRlhf' = nRlhf + 1
    /\ UNCHANGED <<feedback_store, arms, prefs, report, unprocessed>>

RlhfInit ==
    /\ MemoryFresh
    /\ hallucination_available = TRUE
    /\ ca_review_queue = <<>>
    /\ result = None
    /\ call = None
    /\ nCalls = 0
    /\ LearningFresh
    /\ PipelineFresh
    /\ CacheFresh

MaxRlhfSteps == 4

RlhfNext ==
    /\ nRlhf < MaxRlhfSteps
    /\ UNCHANGED <<gateVars, memVars, thrVars, rlVars, run_thr, embVars>>
    /\ \/ \E a \in RlhfActions, q \in Queries, g \in SignalTypes :
             PipelineRecordFeedback(a, q, g)
       \/ Run
       \/ \E d \in Days : Pass(d)

SpecRLHF == RlhfInit /\ [][RlhfNext]_vars

\* ---- the online bandit and the weekly pipeline in one process ----
\* the files of the two modules, as path components under the working
\* directory (the defaults of the environment variables)
\* (a variant with the arm statistics in the file of the online weights)
SHARED_WEIGHTS_FILE == <<"rl_weights.pkl">>
WEIGHTS_FILE == <<"rl_weights.json">>
PREFS_FILE == <<"retrieval_prefs.json">>
FEEDBACK_FILE == <<"feedback_store.jsonl">>
WEIGHTS_PATH == <<".", "rl_weights.pkl">>
normalized(path) == SelectSeq(path, LAMBDA c : c # ".")
\* the online weights file after `content` was written to `target`
written_to(target, content, file) ==
    IF normalized(target) = normalized(WEIGHTS_PATH) THEN content ELSE file

\* rlhf_feedback(data): one record appended to the feedback file
RlhfFeedback(action, query, signal) ==
    /\ PipelineRecordFeedback(action, query, signal)
    /\ weights_file' = written_to(FEEDBACK_FILE, [kind |-> "jsonl", n |-> Len(feedback_store')],
                                  weights_file)
    /\ UNCHANGED <<bandit, session_rl, chosen, rl_ret, nRl>>

\* rlhf_run_weekly(): the run, the arm statistics and the preferences saved
\* when there were records
saved_by_run(file) ==
    written_to(PREFS_FILE, [kind |-> "json", prefs |-> prefs'],
               written_to(WEIGHTS_FILE, [kind |-> "json", arms |-> arms'], file))
RlhfRunWeekly ==
    /\ Run
    /\ weights_file' = IF load_since(feedback_store, clock - WEEK) = <<>> THEN weights_file
                       ELSE saved_by_run(weights_file)
    /\ UNCHANGED <<bandit, session_rl, chosen, rl_ret, nRl>>

MaxLearningOps == 4
OnlineInputs == {[intent |-> "budget", anxiety_level |-> "low", polarity |-> "negative"]}

LearningNext ==
    /\ nRl + nRlhf < MaxLearningOps
    /\ UNCHANGED <<gateVars, memVars, thrVars, upd, run_thr, embVars>>
    /\ \/ /\ \E sid \in SessionIds, in \in OnlineInputs : SelectStrategy(sid, in)
          /\ UNCHANGED <<feedback_store, arms, prefs, clock, report, unprocessed, nRlhf>>
       \/ /\ \E sid \in SessionIds, rating \in Ratings : RecordFeedback(sid, rating, "ok")
          /\ UNCHANGED <<feedback_store, arms, prefs, clock, report, unprocessed, nRlhf>>
       \/ \E a \in RlhfActions, g \in SignalTypes : RlhfFeedback(a, "save tax?", g)
       \/ RlhfRunWeekly

SpecLearning == StrategyInit /\ [][LearningNext]_vars

\* ---- rlhf_run_weekly triggered on two threads: no lock in the code ----
\* Every record names the arm OverlapArm, so that the loop over the updated
\* arms in LinUCBUpdater.update has one iteration.
OverlapArm == "retrieval_only"
MaxOverlapRecords == 2

\* run up to load_since; without records the call returns at once
RunLoad(t) ==
    /\ run_thr[t].pc = "idle"
    /\ run_thr' = [run_thr EXCEPT ![t] =
          [pc |-> IF load_since(feedback_store, clock - WEEK) = <<>> THEN "returned"
                  ELSE "loaded",
           records |-> load_since(feedback_store, clock - WEEK), n_samples |-> 0]]
    /\ UNCHANGED <<arms, prefs>>

\* LinUCBUpdater.update, line 234: arm.n_samples is read for the += ...
RunReadSamples(t) ==
    /\ run_thr[t].pc = "loaded"
    /\ run_thr' = [run_thr EXCEPT ![t].pc = "n_read",
                                  ![t].n_samples = arms[OverlapArm].n_samples]
    /\ UNCHANGED <<arms, prefs>>

\* ... and stored; lines 235-236 and _save
RunWriteArm(t) ==
    /\ run_thr[t].pc = "n_read"
    /\ run_thr' = [run_thr EXCEPT ![t].pc = "arms_done"]
    /\ arms' = [arms EXCEPT ![OverlapArm] =
          arm_update([@ EXCEPT !.n_samples = run_thr[t].n_samples],
                     n_new(run_thr[t].records, OverlapArm),
                     reward_sum(run_thr[t].records, OverlapArm, clock))]
    /\ UNCHANGED prefs

\* RetrievalFeedback.update, the report and the return
RunRetrieval(t) ==
    /\ run_thr[t].pc = "arms_done"
    /\ run_thr' = [run_thr EXCEPT ![t].pc = "returned"]
    /\ prefs' = retrieval_update(prefs, run_thr[t].records)
    /\ UNCHANGED arms

OverlapNext ==
    /\ UNCHANGED <<gateVars, memVars, thrVars, rlVars, clock, report, unprocessed, embVars>>
    /\ \/ /\ Len(feedback_store) < MaxOverlapRecords
          /\ \A t \in Threads : run_thr[t].pc = "idle"
          /\ \E q \in Queries, g \in SignalTypes :
                /\ feedback_store' = Append(feedback_store,
                                            FeedbackRecord(OverlapArm, q, g, clock))
                /\ nRlhf' = nRlhf + 1
                /\ UNCHANGED <<arms, prefs, run_thr>>
       \/ /\ UNCHANGED <<feedback_store, nRlhf>>
          /\ \E t \in Threads :
                RunLoad(t) \/ RunReadSamples(t) \/ RunWriteArm(t) \/ RunRetrieval(t)

SpecOverlap == RlhfInit /\ [][OverlapNext]_vars

(***************************************************************************)
(* embeddings.py: the cached embedding model.  A cache file holds a pickle  *)
(* of a vector or the rest of a failed write.  `io` is what the file system *)
(* does during one call: "ok"; "read_error", open or pickle.load of an      *)
(* existing file raises; "write_denied", open for writing raises;           *)
(* "write_full", the dump fails after open emptied the file; "no_access",   *)
(* the directory cannot be searched and Path.exists raises.                 *)
(***************************************************************************)
Texts == {"a", "b"}
IO == {"ok", "read_error", "write_denied", "write_full", "no_access"}
\* the embedding model is not code of this repository: its vector for a text
\* is one of these
Variants == {1, 2}
vector(text, variant) == [of |-> text, variant |-> variant]

\* _load_from_cache: the pickled vector, or None (<<>>) when the file is
\* absent or cannot be read; path.exists() is outside the try
exists_raises(io) == io = "no_access"
\* (a variant that never finds an entry)
load_nothing(files, text, io) == <<>>
load_from_cache(files, text, io) ==
    IF text \notin DOMAIN files THEN <<>>
    ELSE IF io = "read_error" \/ files[text].kind # "pickle" THEN <<>>
    ELSE <<files[text].value>>

\* _save_to_cache: the vector pickled into the file; errors are logged
save_to_cache(files, text, embedding, io) ==
    CASE io = "write_denied" -> files
      [] io = "write_full" -> Put(files, text, [kind |-> "truncated"])
      [] OTHER -> Put(files, text, [kind |-> "pickle", value |-> embedding])

\* the call made before this one, kept with each result
prior_call == IF emb_ret = None THEN <<>> ELSE <<emb_ret.op, emb_ret.texts>>

\* embed_query(text); v is the variant the model returns if it is invoked
EmbedQueryHit(text, io, cached) ==
    /\ cache_stats' = [cache_stats EXCEPT !.hits = @ + 1]
    /\ emb_ret' = [op |-> "embed_query", texts |-> <<text>>, io |-> io, raised |-> FALSE,
                   prior |-> prior_call,
                   value |-> cached, invoked |-> <<>>]
    /\ UNCHANGED <<cache, provider_calls>>

EmbedQueryMiss(text, io, v) ==
    /\ cache_stats' = [cache_stats EXCEPT !.misses = @ + 1]
    /\ provider_calls' = Append(provider_calls, text)
    /\ cache' = save_to_cache(cache, text, vector(text, v), io)
    /\ emb_ret' = [op |-> "embed_query", texts |-> <<text>>, io |-> io, raised |-> FALSE,
                   prior |-> prior_call,
                   value |-> <<vector(text, v)>>, invoked |-> <<text>>]

EmbedRaises(op, texts, io) ==
    /\ emb_ret' = [op |-> op, texts |-> texts, io |-> io, raised |-> TRUE,
                   prior |-> prior_call,
                   value |-> <<>>, invoked |-> <<>>]
    /\ UNCHANGED <<cache, cache_stats, provider_calls>>

EmbedQuery(text, io, v) ==
    /\ nEmb' = nEmb + 1
    /\ IF exists_raises(io) THEN EmbedRaises("embed_query", <<text>>, io)
       ELSE IF load_from_cache(cache, text, io) # <<>>
            THEN EmbedQueryHit(text, io, load_from_cache(cache, text, io))
            ELSE EmbedQueryMiss(text, io, v)

\* embed_documents(texts): the cached vectors, placeholders (<<>>) for the
\* others, one batch call of the model for those, each result stored at its
\* index and saved
uncached_indices(texts, io) ==
    SelectSeq([i \in 1..Len(texts) |-> i],
              LAMBDA i : load_from_cache(cache, texts[i], io) = <<>>)
RECURSIVE save_all(_, _, _, _)
save_all(files, texts, v, io) ==
    IF texts = <<>> THEN files
    ELSE save_all(save_to_cache(files, Head(texts), vector(Head(texts), v), io),
                  Tail(texts), v, io)

EmbedDocumentsWith(texts, io, v, idx) ==
    /\ cache_stats' = [hits |-> cache_stats.hits + Len(texts) - Len(idx),
                       misses |-> cache_stats.misses + Len(idx)]
    /\ provider_calls' = provider_calls \o [k \in 1..Len(idx) |-> texts[idx[k]]]
    /\ cache' = save_all(cache, [k \in 1..Len(idx) |-> texts[idx[k]]], v, io)
    /\ emb_ret' = [op |-> "embed_documents", texts |-> texts, io |-> io, raised |-> FALSE,
                   prior |-> prior_call,
                   value |-> [i \in 1..Len(texts) |->
                                 IF load_from_cache(cache, texts[i], io) # <<>>
                                 THEN load_from_cache(cache, texts[i], io)[1]
                                 ELSE vector(texts[i], v)],
                   invoked |-> [k \in 1..Len(idx) |-> texts[idx[k]]]]

EmbedDocuments(texts, io, v) ==
    /\ nEmb' = nEmb + 1
    /\ IF exists_raises(io) /\ texts # <<>> THEN EmbedRaises("embed_documents", texts, io)
       ELSE EmbedDocumentsWith(texts, io, v, uncached_indices(texts, io))

EmbedInit ==
    /\ MemoryFresh
    /\ hallucination_available = TRUE
    /\ ca_review_queue = <<>>
    /\ result = None
    /\ call = None
    /\ nCalls = 0
    /\ LearningFresh
    /\ PipelineFresh
    /\ CacheFresh

MaxEmbedCalls == 3
TextLists == {<<>>} \cup {<<t>> : t \in Texts} \cup {<<t, u>> : t \in Texts, u \in Texts}

EmbedNext ==
    /\ nEmb < MaxEmbedCalls
    /\ UNCHANGED <<gateVars, memVars, thrVars, rlVars, rlhfVars>>
    /\ \/ \E t \in Texts, io \in IO, v \in Variants : EmbedQuery(t, io, v)
       \/ \E ts \in TextLists, io \in IO, v \in Variants : EmbedDocuments(ts, io, v)

SpecEmbed == EmbedInit /\ [][EmbedNext]_vars

(***************************************************************************)
(* confidence_scorer.py                                                    *)
(***************************************************************************)
ESCALATE_THRESHOLD   == 12000      \* 0.50
DISCLAIMER_THRESHOLD == 15600      \* 0.65
CA_QUEUE_MAXLEN      == 500        \* deque(maxlen=500)
ANSWER_TRUNCATE      == 500        \* answer[:500]

\* _retrieval_score
retrieval_score(retrieval) ==
    IF retrieval = None THEN ScoreOne \div 2
    ELSE   Min(InputOne, retrieval.top_similarity_score) * 8
         + Min(InputOne, retrieval.avg_similarity_score) * 6
         + Min(InputOne, retrieval.chunk_diversity) * 3
         + Min(InputOne, (retrieval.num_chunks_retrieved * InputOne) \div 4) * 3

\* components["intent"] = min(1.0, max(0.0, intent_confidence))
intent_score(intent_confidence) ==
    Min(InputOne, Max(0, intent_confidence)) * 20

\* _complexity_penalty: 0.4 on a high keyword, else 0.65 on a medium one, else 1.0
complexity_penalty(high_kw, medium_kw) ==
    IF high_kw THEN 480
    ELSE IF medium_kw THEN 780
    ELSE ScoreOne

\* _answer_quality_score: min(1, positive / max(2, 6 * 0.4)) - min(0.5, negative * 0.15), at least 0
answer_quality_score(positive, negative) ==
    Max(0, Min(ScoreOne, positive * 500) - Min(ScoreOne \div 2, negative * 180))

\* _length_score
length_score(tokens) ==
    IF tokens < 20 THEN 240
    ELSE IF tokens < 50 THEN 720
    ELSE IF tokens < 500 THEN ScoreOne
    ELSE 960

\* the weighted aggregate of score, clamped to [0, 1]
weighted_confidence(c) ==
    Max(0, Min(ConfOne,   6 * c.retrieval
                        + 4 * c.intent
                        + 5 * c.answer_quality
                        + 2 * c.length_score
                        + 3 * c.complexity_penalty
                        + c.hallucination_penalty))

\* escalation with the hallucination branch lost: only a low confidence escalates
escalation_by_confidence_only(hall_result, confidence) ==
    IF confidence < ESCALATE_THRESHOLD
    THEN [escalate |-> TRUE,
          escalation_reason |-> [kind |-> "low_confidence",
                                 confidence |-> RoundDiv(confidence * 100, ConfOne)]]
    ELSE [escalate |-> FALSE, escalation_reason |-> None]

\* "Escalation and disclaimer logic" of score: [escalate, escalation_reason]
escalation(hall_result, confidence) ==
    IF hall_result # None /\ hall_result.is_hallucination
    THEN [escalate |-> TRUE,
          escalation_reason |-> [kind |-> "hallucination_detected",
                                 confidence |-> RoundDiv(hall_result.confidence, 100)]]
    ELSE IF confidence < ESCALATE_THRESHOLD
    THEN [escalate |-> TRUE,
          escalation_reason |-> [kind |-> "low_confidence",
                                 confidence |-> RoundDiv(confidence * 100, ConfOne)]]
    ELSE [escalate |-> FALSE, escalation_reason |-> None]

\* _build_disclaimer
build_disclaimer(confidence, escalate, hall_result) ==
    IF escalate \/ (hall_result # None /\ hall_result.is_hallucination)
    THEN "flagged_for_ca_review"
    ELSE IF confidence < DISCLAIMER_THRESHOLD THEN "consult_a_ca"
    ELSE "general_guidance"

\* add_disclaimer with the comparison made inclusive
add_disclaimer_inclusive(confidence) == confidence <= DISCLAIMER_THRESHOLD

\* add_disclaimer compared with the escalation threshold
add_disclaimer_when_low(confidence) == confidence < ESCALATE_THRESHOLD
\* add_disclaimer = confidence < DISCLAIMER_THRESHOLD
add_disclaimer(confidence) == confidence < DISCLAIMER_THRESHOLD

\* answer[:n]
Truncate(answer, n) == [answer EXCEPT !.chars = Min(answer.chars, n)]

\* deque(maxlen).append: the new item at the right end, the left end dropped when full
append_right(q, item, maxlen) ==
    IF maxlen = 0 THEN q
    ELSE IF Len(q) >= maxlen THEN SubSeq(q, 2, Len(q)) \o <<item>>
    ELSE q \o <<item>>

\* deque(maxlen).appendleft: the new item at the left end, the right end dropped when full
appendleft(q, item, maxlen) ==
    IF maxlen = 0 THEN q
    ELSE IF Len(q) >= maxlen THEN <<item>> \o SubSeq(q, 1, maxlen - 1)
    ELSE <<item>> \o q

\* add_to_ca_queue storing the whole answer
add_to_ca_queue_untruncated(q, query, answer, reason, confidence) ==
    <<[ query |-> query, answer |-> answer, reason |-> reason,
        confidence |-> confidence, status |-> "pending" ]>> \o q

\* add_to_ca_queue (id and timestamp, both read from the clock, are left out)
add_to_ca_queue(q, query, answer, reason, confidence) ==
    appendleft(q,
               [ query      |-> query,
                 answer     |-> Truncate(answer, ANSWER_TRUNCATE),
                 reason     |-> reason,
                 confidence |-> confidence,
                 status     |-> "pending" ],
               CA_QUEUE_MAXLEN)

\* get_ca_queue: list(_ca_review_queue)[:limit], limit >= 0
get_ca_queue(q, limit) == SubSeq(q, 1, Min(limit, Len(q)))

\* the result of score from the hallucination check and the clamped confidence
decision(hall_result, confidence, esc) ==
    [ confidence        |-> confidence,
      escalate          |-> esc.escalate,
      escalation_reason |-> esc.escalation_reason,
      add_disclaimer    |-> add_disclaimer(confidence),
      disclaimer_text   |-> build_disclaimer(confidence, esc.escalate, hall_result),
      hallucination     |-> hall_result ]

\* the components of score
components(in, hall_result) ==
    [ retrieval             |-> retrieval_score(in.retrieval),
      intent                |-> intent_score(in.intent_confidence),
      complexity_penalty    |-> complexity_penalty(in.high_kw, in.medium_kw),
      answer_quality        |-> answer_quality_score(in.positive, in.negative),
      length_score          |-> length_score(in.answer.tokens),
      hallucination_penalty |->
          IF hall_result # None /\ hall_result.is_hallucination THEN -9600 ELSE 0 ]

score_decide(hall_result, confidence) ==
    decision(hall_result, confidence, escalation(hall_result, confidence))

score_with(in, hall_result) ==
    score_decide(hall_result, weighted_confidence(components(in, hall_result)))

\* ConfidenceScorer.score without its effect on the queue: the hallucination
\* check (when the detector was imported), the components, the confidence and
\* the decision.
score(in, available) ==
    score_with(in, IF available THEN hallucination_check(in.facts, in.category) ELSE None)

\* ---- inputs of the gate ----
MaxCalls == 1
MaxEscalations == 503

Answers ==
    { [text |-> "a1", chars |-> 40,  tokens |-> 8],
      [text |-> "a2", chars |-> 501, tokens |-> 100] }

Retrievals ==
    { None,
      [top_similarity_score |-> 72, avg_similarity_score |-> 60,
       chunk_diversity |-> 60, num_chunks_retrieved |-> 8] }

IntentConfidences == {30, 90}

\* what the detector sees of the answer
AnswerFacts ==
    { [triggered |-> {}, rates |-> {"15%"}, amounts |-> {}],
      [triggered |-> {"stcg_111a_rate"}, rates |-> {"15%"}, amounts |-> {}],
      [triggered |-> {"stcg_111a_rate", "ltcg_112a_rate", "tds_194c_individual", "gst_gold"},
       rates |-> {"15%"}, amounts |-> {}],
      [triggered |-> {"ltcg_112a_rate", "ltcg_112a_exemption"},
       rates |-> {}, amounts |-> {"100000"}] }

Categories == {"general", "regime"}

GateInputs ==
    { [ query |-> "q", answer |-> a, positive |-> p, negative |-> 0,
        high_kw |-> h, medium_kw |-> FALSE, facts |-> f, category |-> c,
        retrieval |-> r, intent_confidence |-> i ] :
        a \in Answers, p \in {0, 3}, h \in BOOLEAN, f \in AnswerFacts,
        c \in Categories, r \in Retrievals, i \in IntentConfidences }

\* ---- operations ----
\* the queue as earlier calls left it: empty, or holding one escalated answer
PriorQueues ==
    { <<>>,
      add_to_ca_queue(<<>>, "q0", [text |-> "a0", chars |-> 700, tokens |-> 120],
                      [kind |-> "low_confidence", confidence |-> 41], 9840) }

GateInit ==
    /\ hallucination_available \in BOOLEAN
    /\ ca_review_queue \in PriorQueues
    /\ result = None
    /\ call = None
    /\ nCalls = 0
    /\ MemoryFresh
    /\ LearningFresh
    /\ PipelineFresh
    /\ CacheFresh

\* the effect of a score call whose decision is s: the queue and the returned result
ScoreEffect(in, s) ==
    /\ ca_review_queue' =
          IF s.escalate
          THEN add_to_ca_queue(ca_review_queue, in.query, in.answer,
                               IF s.escalation_reason # None
                               THEN s.escalation_reason ELSE [kind |-> "hallucination"],
                               s.confidence)
          ELSE ca_review_queue
    /\ result' = [ confidence        |-> RoundDiv(s.confidence * 10000, ConfOne),
                   escalate_to_ca    |-> s.escalate,
                   add_disclaimer    |-> s.add_disclaimer,
                   disclaimer_text   |-> s.disclaimer_text,
                   escalation_reason |-> s.escalation_reason,
                   hallucination     |-> s.hallucination ]
    /\ call' = [query |-> in.query, answer |-> in.answer, confidence |-> s.confidence]

\* ConfidenceScorer.score(query, answer, category, retrieval, intent_confidence)
Score(in) ==
    /\ ScoreEffect(in, score(in, hallucination_available))
    /\ nCalls' = nCalls + 1
    /\ UNCHANGED <<hallucination_available, memVars, thrVars, rlVars, rlhfVars, embVars>>

GateNext == nCalls < MaxCalls /\ \E in \in GateInputs : Score(in)

\* The gate serving answers of every kind, from a queue earlier calls left.
SpecGate == GateInit /\ [][GateNext]_vars

\* ---- the queue under a long run of escalations ----
\* The n-th call asks the query n, so that the items of the queue tell their
\* order of arrival; each input is a short answer of low confidence.
EscalatingInputs(n) ==
    { [ query |-> n, answer |-> [text |-> "a1", chars |-> 40, tokens |-> 8],
        positive |-> 0, negative |-> 0, high_kw |-> TRUE, medium_kw |-> FALSE,
        facts |-> [triggered |-> {}, rates |-> {}, amounts |-> {}],
        category |-> "general", retrieval |-> None, intent_confidence |-> 30 ] }

QueueInit ==
    /\ hallucination_available \in BOOLEAN
    /\ ca_review_queue = <<>>
    /\ result = None
    /\ call = None
    /\ nCalls = 0
    /\ MemoryFresh
    /\ LearningFresh
    /\ PipelineFresh
    /\ CacheFresh

QueueNext == nCalls < MaxEscalations /\ \E in \in EscalatingInputs(nCalls + 1) : Score(in)

SpecQueue == QueueInit /\ [][QueueNext]_vars

(***************************************************************************)
(* Claims about the confidence gate                                        *)
(***************************************************************************)
Scored == result # None
HallucinationFired ==
    Scored /\ result.hallucination # None /\ result.hallucination.is_hallucination

\* C1: whenever the hallucination check of a score call returns
\* is_hallucination = true, the result has escalate_to_ca = true, whatever the
\* confidence is.
C1_HallucinationAlwaysEscalates ==
    HallucinationFired => result.escalate_to_ca

\* a hallucination escalated although the confidence is at or above 0.50
C1_Witness ==
    HallucinationFired /\ result.escalate_to_ca /\ call.confidence >= ESCALATE_THRESHOLD

HasSevereFinding ==
    /\ Scored /\ result.hallucination # None
    /\ \E j \in 1..Len(result.hallucination.findings) :
          result.hallucination.findings[j].severity \in {"high", "critical"}

\* C2: whenever the hallucination check produces a finding of severity high or
\* critical, needs_ca_review is true, the result has escalate_to_ca = true and
\* a CAReviewItem of the call is in the queue, whatever the confidence and
\* however many other facts passed.
C2_SevereFindingForcesReview ==
    HasSevereFinding =>
        /\ result.hallucination.needs_ca_review
        /\ result.escalate_to_ca
        /\ Len(ca_review_queue) > 0
        /\ ca_review_queue[1].query = call.query

\* C3: when the hallucination check does not fire, exactly one of three
\* outcomes applies, decided by the clamped confidence c: escalation iff
\* c < 0.50, the enhanced disclaimer without escalation iff 0.50 <= c < 0.65,
\* the standard disclaimer without escalation iff c >= 0.65.
C3_ThreeOutcomes ==
    (Scored /\ ~HallucinationFired) =>
        LET c == call.confidence
            escalated == result.escalate_to_ca
            enhanced  == /\ ~result.escalate_to_ca
                         /\ result.add_disclaimer
                         /\ result.disclaimer_text = "consult_a_ca"
            standard  == /\ ~result.escalate_to_ca
                         /\ ~result.add_disclaimer
                         /\ result.disclaimer_text = "general_guidance"
        IN  /\ escalated <=> c < 12000
            /\ enhanced  <=> (12000 <= c /\ c < 15600)
            /\ standard  <=> c >= 15600

\* an answer served with the enhanced disclaimer at a confidence of exactly 0.50
C3_Witness ==
    /\ Scored /\ ~HallucinationFired
    /\ call.confidence = 12000
    /\ ~result.escalate_to_ca /\ result.add_disclaimer

\* C4: a score call whose result has escalate_to_ca = true puts exactly one
\* item at the head of the queue, carrying the call's query, its answer cut to
\* 500 characters, the escalation reason, the confidence and status pending,
\* and keeps the items that were there (but the oldest of a full queue); a call
\* whose result has escalate_to_ca = false leaves the queue unchanged; the
\* escalation reason is present exactly when escalate_to_ca is true.
C4_Step ==
    nCalls' = nCalls + 1 =>
        /\ result'.escalate_to_ca =>
              /\ Len(ca_review_queue') = Len(ca_review_queue) + (IF Len(ca_review_queue) < 500 THEN 1 ELSE 0)
              /\ ca_review_queue'[1] =
                    [ query      |-> call'.query,
                      answer     |-> [ text   |-> call'.answer.text,
                                       tokens |-> call'.answer.tokens,
                                       chars  |-> IF call'.answer.chars > 500 THEN 500
                                                  ELSE call'.answer.chars ],
                      reason     |-> result'.escalation_reason,
                      confidence |-> call'.confidence,
                      status     |-> "pending" ]
              /\ \A i \in 2..Len(ca_review_queue') : ca_review_queue'[i] = ca_review_queue[i - 1]
        /\ ~result'.escalate_to_ca => ca_review_queue' = ca_review_queue
        /\ (result'.escalation_reason # None) <=> result'.escalate_to_ca

C4_EscalationEnqueuesOne == [][C4_Step]_vars

\* an escalated long answer sits, cut to 500 characters, ahead of an earlier item
C4_Witness ==
    /\ Scored /\ result.escalate_to_ca
    /\ call.answer.chars > 500
    /\ Len(ca_review_queue) = 2
    /\ ca_review_queue[1].answer.chars = 500

(***************************************************************************)
(* Claims about the CA review queue                                        *)
(***************************************************************************)
QueueLimits == {0, 1, 50, 499, 500, 501}

\* In SpecQueue the n-th escalation carries the query n: the newest item is
\* the query nCalls, the one before it nCalls - 1, and so on.
C5_State ==
    /\ Len(ca_review_queue) <= 500
    /\ \A limit \in QueueLimits :
          LET got == get_ca_queue(ca_review_queue, limit)
              n   == Min(limit, Min(nCalls, 500))
          IN  /\ Len(got) = n
              /\ \A i \in 1..n : got[i].query = nCalls - i + 1

C5_Step ==
    (nCalls' = nCalls + 1 /\ Len(ca_review_queue) = 500) =>
        /\ Len(ca_review_queue') = 500
        /\ ca_review_queue'[1].query = nCalls'
        /\ \A i \in 1..499 : ca_review_queue'[i + 1] = ca_review_queue[i]
        /\ \A i \in 1..500 : ca_review_queue[i].query >= ca_review_queue[500].query
        /\ \A i \in 1..500 : ca_review_queue'[i] # ca_review_queue[500]

\* C5: after any sequence of escalations the queue holds at most 500 items;
\* an escalation into a queue of 500 drops exactly the item enqueued earliest
\* and keeps the other 499 in their order; get_ca_queue(limit) returns the
\* min(limit, size) most recently enqueued items, newest first.
C5_BoundedNewestFirst == []C5_State /\ [][C5_Step]_vars

\* the queue is full and the first two escalations have been dropped
C5_Witness ==
    /\ nCalls = 502
    /\ Len(ca_review_queue) = 500
    /\ ca_review_queue[500].query = 3
    /\ ca_review_queue[1].query = 502


(***************************************************************************)
(* Claims about the session store                                          *)
(***************************************************************************)
\* the step is a memory operation (not the clock), described by ret'
MemoryOp == nOps' = nOps + 1 /\ ret' # None /\ ret'.n = nOps'

\* the tags of the exchanges saved into entry e, in the order they were saved
SavedTags(e) == SelectSeq(served, LAMBDA r : r.entry = e)

\* the messages of the exchanges tags[from..to], oldest first
ExchangesOf(tags, from, to) ==
    [i \in 1..(2 * (to - from + 1)) |->
        [ type |-> IF i % 2 = 1 THEN "human" ELSE "ai",
          content |-> tags[from + (i - 1) \div 2].tag ]]

\* C6: for every session, once N > window_size exchanges have been appended
\* to it, the memory exposed to the prompt is exactly the last window_size
\* exchanges, oldest first, and holds none of the first N - window_size.
C6_WindowExposesLastExchanges ==
    \A s \in DOMAIN sessions :
        LET e      == entries[sessions[s]]
            tags   == SavedTags(sessions[s])
            N      == Len(tags)
            w      == e.window_size
            shown  == load_memory_variables(e)
        IN  N > w =>
              /\ shown = ExchangesOf(tags, N - w + 1, N)
              /\ \A i \in 1..(N - w) : \A j \in 1..Len(shown) :
                    shown[j].content # tags[i].tag

C6_Witness ==
    \E s \in DOMAIN sessions :
        /\ entries[sessions[s]].window_size = MEMORY_WINDOW_SIZE
        /\ Len(SavedTags(sessions[s])) = MEMORY_WINDOW_SIZE + 2
        /\ Len(load_memory_variables(entries[sessions[s]])) = 2 * MEMORY_WINDOW_SIZE

C7_OneStatePerSession ==
    \A s \in DOMAIN sessions :
        /\ sessions[s] \in 1..Len(entries)
        /\ entries[sessions[s]].session_id = s
        /\ \A t \in DOMAIN sessions : t # s => sessions[t] # sessions[s]

\* what a get_memory(s) that returned m did, going from the unprimed state
C7_GetMemory(s, m) ==
    IF s \in DOMAIN sessions
    THEN m = sessions[s] /\ sessions'[s] = m
         /\ entries'[m].messages = entries[m].messages
    ELSE /\ m \notin 1..Len(entries)
         /\ sessions'[s] = m
         /\ entries'[m].messages = <<>>

C7_Step ==
    MemoryOp =>
      /\ ret'.op = "get_memory" => C7_GetMemory(ret'.sid, ret'.value)
      /\ ret'.op = "query" =>
            \A t \in DOMAIN sessions \cap DOMAIN sessions' : t # ret'.sid =>
                /\ sessions'[t] = sessions[t]
                /\ entries'[sessions'[t]].messages = entries[sessions[t]].messages
      /\ \A m \in 1..Len(entries) :
            entries'[m].messages # entries[m].messages =>
                ret'.op = "query" /\ ret'.value /\ ret'.memory = m
                /\ entries[m].session_id = ret'.sid

\* C7: under sequential get_memory, appends, clear_session and
\* evict_stale_sessions calls, a session id has at most one state, shared with
\* no other id; get_memory of an absent id creates a memory with no exchange;
\* get_memory of a present id returns the memory it already had; an append to
\* one session changes the history of no other.
C7_OneMemoryPerSession == []C7_OneStatePerSession /\ [][C7_Step]_vars

C7_Witness ==
    /\ ret # None /\ ret.op = "get_memory"
    /\ Cardinality(DOMAIN sessions) = 2
    /\ Len(entries) >= 3
    /\ ret.value = sessions[ret.sid]
    /\ Len(entries[ret.value].messages) > 0

\* the sessions idle for more than max_age, by the time of their last get_memory
IdleLongerThan(a) == {s \in DOMAIN sessions : now - accessed_at[s] > a}

\* the sessions of S are still there, with the memory and history they had
Kept(S) ==
    \A s \in S : /\ s \in DOMAIN sessions'
                 /\ sessions'[s] = sessions[s]
                 /\ entries'[sessions[s]].messages = entries[sessions[s]].messages

C8_Step ==
    MemoryOp =>
      /\ ret'.op = "evict_stale_sessions" =>
            /\ DOMAIN sessions' = DOMAIN sessions \ IdleLongerThan(ret'.max_age)
            /\ ret'.value = Cardinality(IdleLongerThan(ret'.max_age))
            /\ Kept(DOMAIN sessions \ IdleLongerThan(ret'.max_age))
      /\ (ret'.op = "query" /\ ret'.sweep) =>
            /\ DOMAIN sessions' \ {ret'.sid}
                  = DOMAIN sessions \ (IdleLongerThan(DEFAULT_MAX_AGE) \cup {ret'.sid})
            /\ Kept(DOMAIN sessions \ (IdleLongerThan(DEFAULT_MAX_AGE) \cup {ret'.sid}))
      /\ ret'.op = "clear_session" =>
            /\ ret'.value = (ret'.sid \in DOMAIN sessions)
            /\ DOMAIN sessions' = DOMAIN sessions \ {ret'.sid}
            /\ Kept(DOMAIN sessions \ {ret'.sid})

\* C8: evict_stale_sessions(max_age) removes exactly the sessions whose last
\* get_memory is more than max_age ago, returns how many, and leaves the others
\* and their histories alone (so a session accessed at most max_age ago
\* survives); clear_session(s) returns true iff s existed and removes only s.
C8_EvictionAndClearExact == [][C8_Step]_vars

C8_Witness ==
    /\ ret # None /\ ret.op = "evict_stale_sessions"
    /\ ret.n = nOps
    /\ ret.value = 1
    /\ \E s \in DOMAIN sessions : now - accessed_at[s] = ret.max_age


(***************************************************************************)
(* Claims about parallel requests                                          *)
(***************************************************************************)
\* C9: when requests for one session id run in parallel, the session being
\* new or not, then once all of them have returned successfully the session's
\* stored history (the memory a later get_memory returns) holds the exchange
\* of every one of them.
C9_NoLostUpdate ==
    (\A t \in Threads : thr[t].pc = "idle") =>
        \A i \in 1..Len(served) :
            /\ served[i].sid \in DOMAIN sessions
            /\ \E j \in 1..Len(entries[sessions[served[i].sid]].messages) :
                  entries[sessions[served[i].sid]].messages[j]
                      = [type |-> "human", content |-> served[i].tag]

SweepFailures == {"evict_stale_sessions: RuntimeError", "evict_stale_sessions: KeyError"}

\* C10: run in parallel with get_memory and clear_session calls, the sweep
\* never fails, never deletes a session that a request touched after the
\* sweep judged it stale, and so no request saves its exchange into a memory
\* the sweep has deleted.
C10_SweepSafe ==
    /\ \A t \in Threads : ~(thr[t].pc = "failed" /\ thr[t].err \in SweepFailures)
    /\ removed_live = {}
    /\ \A i \in 1..Len(served) : ~served[i].orphan


(***************************************************************************)
(* Claims about a failing generation                                       *)
(***************************************************************************)
\* the exchange history of session s: nothing when the session does not exist
History(sess, heap, s) == IF s \in DOMAIN sess THEN heap[sess[s]].messages ELSE <<>>

C11_Step ==
    (MemoryOp /\ ret'.op = "query" /\ ~ret'.value) =>
        /\ ret'.raised
        /\ served' = served
        /\ \A m \in 1..Len(entries) : entries'[m].messages = entries[m].messages
        /\ \A m \in 1..Len(entries') : \A j \in 1..Len(entries'[m].messages) :
              entries'[m].messages[j].content # ret'.n
        /\ \/ History(sessions', entries', ret'.sid) = History(sessions, entries, ret'.sid)
           \/ ret'.sweep /\ ret'.sid \in IdleLongerThan(DEFAULT_MAX_AGE)

symmetric(A) == \A i \in Dim : \A j \in Dim : A[i][j] = A[j][i]
\* a symmetric matrix is positive definite iff elimination without row
\* exchanges meets only positive pivots; they are the diagonal left behind
positive_pivots(M) == M # <<>> /\ \A i \in Dim : M[i][i][1] > 0
positive_definite(A) == positive_pivots(gauss_jordan(A, 1))

\* C12: after any sequence of select_action and update calls on a fresh
\* bandit every arm's matrix A is symmetric positive definite, and
\* select_action has not raised on any arm.
C12_DesignMatrixStaysSPD ==
    bandit # None =>
        /\ \A a \in Arms : symmetric(bandit.stats[a].A) /\ positive_definite(bandit.stats[a].A)
        /\ rl_ret # None =>
              (rl_ret.op = "select_action" => \A a \in Arms : ~rl_ret.ucb_scores[a].raised)

\* a select_action answered by a bandit one of whose arms was updated three times
C12_Witness ==
    /\ bandit # None /\ rl_ret # None
    /\ rl_ret.op = "select_action"
    /\ rl_ret.n = 4
    /\ \E a \in Arms : bandit.stats[a].A # eye /\ bandit.stats[a].A[CONTEXT_DIM][CONTEXT_DIM] = <<4, 1>>

\* ---- C18 ----
\* C18: in every reachable state a further update(a, x, +1.0) strictly
\* increases the arm's estimate theta_a . x at that context.
C18_PositiveFeedbackRaisesEstimate ==
    (rl_ret # None /\ bandit # None) =>
        ((rl_ret.op = "update" /\ rl_ret.reward = One) =>
            RLess(rl_ret.before.mean, rl_ret.after.mean))

\* ---- C13 ----
FeedbackStep == nRl' = nRl + 1 /\ rl_ret'.op = "record_feedback"

C13_Attributed(sid, rating) ==
    /\ rl_ret'.updated
    /\ bandit'.stats =
          [get_bandit(bandit, weights_file).stats EXCEPT ![chosen[sid].action_idx] =
              update_stats(@, chosen[sid].context, <<IF rating = "up" THEN 1 ELSE -1, 1>>)]
    /\ \A s \in DOMAIN session_rl \ {sid} : session_rl'[s] = session_rl[s]

C13_Step ==
    (FeedbackStep /\ rl_ret'.session_id \in DOMAIN chosen) =>
        C13_Attributed(rl_ret'.session_id, rl_ret'.rating)

\* C13: record_feedback(s, rating) updates exactly the arm that the latest
\* select_strategy for s returned, with exactly that call's context and the
\* reward +1 for 'up' and -1 for 'down', whatever other sessions did in between.
C13_FeedbackGoesToLatestSelection == [][C13_Step]_vars

\* session s1 rates after session s2 was given another arm in between
C13_Witness ==
    /\ rl_ret # None
    /\ rl_ret.op = "record_feedback" /\ rl_ret.updated /\ rl_ret.session_id = "s1"
    /\ "s2" \in DOMAIN chosen
    /\ chosen["s2"].action_idx # chosen["s1"].action_idx
    /\ session_rl["s1"].feedback_count = 2

\* ---- C14 ----
C14_Step ==
    (FeedbackStep /\ rl_ret'.session_id \notin DOMAIN chosen) =>
        /\ ~rl_ret'.updated
        /\ bandit'.stats = get_bandit(bandit, weights_file).stats
        /\ weights_file' = weights_file
        /\ session_rl'[rl_ret'.session_id].feedback_sum
             = get_session_rl_state(session_rl, rl_ret'.session_id).feedback_sum
        /\ session_rl'[rl_ret'.session_id].feedback_count
             = get_session_rl_state(session_rl, rl_ret'.session_id).feedback_count

\* C14: record_feedback for a session without a prior select_strategy returns
\* without updating anything: the arms' A and b, the weights file and the
\* session's feedback sum and count are as before.
C14_FeedbackWithoutSelectionIsIgnored == [][C14_Step]_vars

\* an ignored rating from one session after another session's rating was learned
C14_Witness ==
    /\ rl_ret # None
    /\ rl_ret.op = "record_feedback" /\ ~rl_ret.updated
    /\ rl_ret.session_id \notin DOMAIN chosen
    /\ weights_file # None

\* ---- C19 ----
selected_arms == {a \in Arms : bandit.total_selections[a] > 0}

\* C19: a fresh bandit with alpha = 0.5 asked 100 times in a row through
\* select_strategy with identical inputs has selected at least two distinct arms.
C19_HundredCallsExplore ==
    (bandit # None /\ nRl = MaxExploreCalls) => Cardinality(selected_arms) >= 2

\* ---- C15 ----
\* C15: once update (and so record_feedback) has returned, the persisted
\* weights hold the updated (A, b) of every arm: a bandit constructed from the
\* file after a crash starts with exactly the values of the bandit in memory.
C15_AcknowledgedUpdateIsDurable ==
    (rl_ret # None /\ bandit # None) =>
        ((rl_ret.op = "record_feedback" /\ rl_ret.updated /\ ~rl_ret.raised) =>
            load(weights_file).stats = bandit.stats)

\* ---- C16 ----
C16_Step ==
    ( /\ nRl' = nRl + 1
      /\ rl_ret'.op \in {"select_strategy", "record_feedback"}
      /\ bandit = None
      /\ weights_file # None
      /\ weights_file.kind # "weights" ) => rl_ret'.raised

\* C16: when the weights file exists but cannot be read back as arm state, the
\* call that constructs the bandit reports an error to its caller instead of
\* serving with reset statistics.
C16_CorruptWeightsAreReported == [][C16_Step]_vars

\* ---- C17 ----
\* the statistics a fresh bandit holds after exactly the updates of the threads ts
RECURSIVE stats_after(_)
stats_after(ts) ==
    IF ts = {} THEN fresh_bandit.stats
    ELSE LET t == CHOOSE u \in ts : TRUE
         IN [stats_after(ts \ {t}) EXCEPT ![upd[t].action_idx] =
                update_stats(@, upd[t].context, <<upd[t].reward, 1>>)]

\* C17: update calls running in parallel never lose an update: once all have
\* returned, the statistics in memory and in the weights file are the initial
\* ones plus every update's x.x^T and reward.x; and no persisted snapshot
\* holds the A of an update whose b is missing.
C17_ConcurrentUpdatesAreSerialized ==
    /\ (\A t \in Threads : upd[t].pc = "returned") =>
          /\ bandit.stats = stats_after(Threads)
          /\ load(weights_file).stats = stats_after(Threads)
    /\ (weights_file # None /\ \E t \in Threads : upd[t].pc # "idle") =>
          \E ts \in SUBSET {t \in Threads : upd[t].pc # "idle"} :
             load(weights_file).stats = stats_after(ts)

\* ---- C20 ----
RunStep == nRlhf' = nRlhf + 1 /\ clock' = clock /\ feedback_store' = feedback_store

C20_Step ==
    (RunStep /\ unprocessed = 0) =>
        /\ report'.status = "no_new_feedback"
        /\ arms' = arms
        /\ prefs' = prefs

\* C20: a weekly run called again with no feedback recorded since the
\* previous run processes 0 records and leaves every arm's n_samples,
\* total_reward and avg_reward and every retrieval-preference count as they
\* were, also when the previous run processed feedback of the last 7 days.
C20_SecondRunProcessesNothing == [][C20_Step]_vars

\* ---- C21 ----
known_arm_records(records) == SelectSeq(records, LAMBDA d : d.action \in DOMAIN arms)

C21_Step ==
    RunStep =>
        /\ report' # None
        /\ arms' = linucb_update(arms,
                       known_arm_records(load_since(feedback_store, clock - WEEK)), clock)
        /\ prefs' = retrieval_update(prefs,
                       known_arm_records(load_since(feedback_store, clock - WEEK)))

\* C21: a feedback record naming no known arm is skipped by the weekly run
\* without raising and with no side effect: arm statistics and retrieval
\* preferences after the run are those of the batch without that record.
C21_UnknownArmRecordHasNoEffect == [][C21_Step]_vars

\* ---- C23 ----
\* the records of a batch with the key k and a positive (or not) reward
batch_count(records, k, positive) ==
    Cardinality({i \in 1..Len(records) :
                    /\ query_key(records[i].query) = k
                    /\ (records[i].reward[1] > 0) = positive})
ScoredQueries == Queries \cup {"sip?"}

C23_Counted(records) ==
    /\ DOMAIN prefs' = DOMAIN prefs \cup {query_key(records[i].query) : i \in 1..Len(records)}
    /\ \A k \in DOMAIN prefs' :
          /\ prefs'[k].positive = entry_of(prefs, k).positive + batch_count(records, k, TRUE)
          /\ prefs'[k].negative = entry_of(prefs, k).negative + batch_count(records, k, FALSE)

C23_Scores ==
    \A q \in ScoredQueries :
        IF query_key(q) \in DOMAIN prefs'
        THEN /\ prefs'[query_key(q)].positive + prefs'[query_key(q)].negative > 0
             /\ preference_score(prefs', q)[1] * (prefs'[query_key(q)].positive
                                                   + prefs'[query_key(q)].negative)
                  = prefs'[query_key(q)].positive * preference_score(prefs', q)[2]
             /\ preference_score(prefs', q)[1] >= 0
             /\ preference_score(prefs', q)[1] <= preference_score(prefs', q)[2]
        ELSE preference_score(prefs', q) = <<1, 2>>

C23_Step ==
    /\ RunStep => C23_Counted(load_since(feedback_store, clock - WEEK))
    /\ C23_Scores

\* C23: every record a run processes adds one to exactly one counter of the
\* entry keyed by its lower-cased query, 'positive' for a reward > 0 and
\* 'negative' otherwise, the entry starting at 0/0; preference_score is
\* positive / (positive + negative), within [0, 1], for a query with an entry
\* and 0.5 for a query without.
C23_PreferenceCountsAndScores == [][C23_Step]_vars

\* a query rated both ways under two spellings, and another never rated
C23_Witness ==
    /\ "save tax?" \in DOMAIN prefs
    /\ prefs["save tax?"].positive >= 1 /\ prefs["save tax?"].negative >= 1
    /\ \E i \in 1..Len(feedback_store) : feedback_store[i].query = "Save Tax?"
    /\ preference_score(prefs, "sip?") = <<1, 2>>

\* ---- C22 ----
touching(t) == run_thr[t].pc \in {"n_read", "arms_done"}
one_after_the_other ==
    linucb_update(linucb_update([a \in DOMAIN arms |-> ArmStats],
                                load_since(feedback_store, clock - WEEK), clock),
                  load_since(feedback_store, clock - WEEK), clock)

\* C22: two executions of the weekly run never overlap: no two runs are
\* between reading and having written the arm statistics and preferences at
\* the same time, and after both the arm statistics are those of running the
\* two one after the other.
C22_RunsDoNotOverlap ==
    /\ ~(touching("t1") /\ touching("t2"))
    /\ (\A t \in Threads : run_thr[t].pc = "returned") => arms = one_after_the_other

\* ---- C24 ----
\* an embed_query call that directly follows an embed_query call of the same text
C24_Second ==
    /\ emb_ret # None
    /\ nEmb' = nEmb + 1
    /\ emb_ret.op = "embed_query" /\ emb_ret'.op = "embed_query"
    /\ emb_ret'.texts = emb_ret.texts
C24_Identical ==
    /\ ~emb_ret.raised /\ ~emb_ret'.raised
    /\ emb_ret'.value = emb_ret.value
    /\ Len(emb_ret.invoked) + Len(emb_ret'.invoked) <= 1
    /\ cache_stats'.hits = cache_stats.hits + 1
    /\ cache_stats'.misses = cache_stats.misses
\* the first call returned and left an entry, and the second can read it
C24_ReadBack ==
    /\ ~emb_ret.raised
    /\ emb_ret.texts[1] \in DOMAIN cache
    /\ cache[emb_ret.texts[1]].kind = "pickle"
    /\ emb_ret'.io \notin {"read_error", "no_access"}

\* C24 as stated: for every text, two consecutive embed_query calls return
\* identical vectors, invoke the embedding model at most once, and the second
\* is counted as a cache hit (hits + 1, misses unchanged).
C24_TwoCallsAlwaysHit == [][C24_Second => C24_Identical]_vars

\* C24: when the first of two consecutive embed_query calls of a text returned
\* and left its entry in the cache and the second can read it, the two return identical
\* vectors, the embedding model is invoked at most once, and the second call
\* is counted as a cache hit (hits + 1, misses unchanged).
C24_SecondCallHitsStoredEntry == [][(C24_Second /\ C24_ReadBack) => C24_Identical]_vars

\* a miss that stored its vector, then a hit of the same text
C24_Witness ==
    /\ emb_ret # None
    /\ emb_ret.op = "embed_query" /\ emb_ret.prior = <<"embed_query", emb_ret.texts>>
    /\ ~emb_ret.raised /\ emb_ret.invoked = <<>>
    /\ provider_calls = emb_ret.texts
    /\ cache_stats = [hits |-> 1, misses |-> 1]

\* ---- C25 ----
C25_Returned ==
    /\ ~emb_ret'.raised
    /\ Len(emb_ret'.value) = Len(emb_ret'.texts)
    /\ \A i \in 1..Len(emb_ret'.texts) :
          emb_ret'.value[i] \in {vector(emb_ret'.texts[i], v) : v \in Variants}
C25_Missed ==
    /\ emb_ret'.invoked = emb_ret'.texts
    /\ cache_stats'.misses = cache_stats.misses + Len(emb_ret'.texts)
C25_Step ==
    (nEmb' = nEmb + 1 /\ emb_ret'.io # "ok") =>
        /\ C25_Returned
        /\ emb_ret'.io \in {"read_error", "no_access"} => C25_Missed

\* C25: a failure to read or write a cache entry never makes embed_query or
\* embed_documents fail or return a missing value: a failed read is a miss
\* (the model is invoked for the text and the miss counter incremented), a
\* failed write is ignored, and the result has an embedding of each input
\* text at its position.
C25_CacheErrorsAreMisses == [][C25_Step]_vars

\* ---- C26 ----
C26_Update ==
    (nRl' = nRl + 1 /\ rl_ret'.op = "update") =>
        /\ \A a \in Arms \ {rl_ret'.action_idx} : bandit'.stats[a] = bandit.stats[a]
        /\ bandit'.stats[rl_ret'.action_idx].A =
               matrix_add(bandit.stats[rl_ret'.action_idx].A,
                          outer(rl_ret'.context, rl_ret'.context))
        /\ bandit'.stats[rl_ret'.action_idx].b =
               vector_add(bandit.stats[rl_ret'.action_idx].b,
                          scaled(rl_ret'.reward, rl_ret'.context))
        /\ bandit'.total_selections = bandit.total_selections
C26_Select ==
    (nRl' = nRl + 1 /\ rl_ret'.op = "select_action") =>
        /\ bandit'.stats = bandit.stats
        /\ \A a \in Arms :
              bandit'.total_selections[a] =
                  bandit.total_selections[a] + (IF a = rl_ret'.action_idx THEN 1 ELSE 0)
        /\ ucb_scores_of(bandit', rl_ret'.context) = rl_ret'.ucb_scores

\* C26: update(a, x, r) changes only arm a, adding x.x^T to its A and r.x to
\* its b; select_action changes no arm's A or b, only the selection counter
\* of the arm it chose, so that the scores of the context are the same after
\* the selection as before.
C26_UpdateAndSelectFrame == [][C26_Update /\ C26_Select]_vars

\* arm 1 updated, arm 0 untouched, and one arm selected twice since
C26_Witness ==
    /\ rl_ret # None /\ rl_ret.op = "select_action"
    /\ bandit.stats[1] # ActionStats /\ bandit.stats[0] = ActionStats
    /\ \E a \in Arms : bandit.total_selections[a] = 2

\* ---- C27 ----
\* mean + alpha * sqrt(variance) of an arm, not rounded, as (B + sqrt(N)) / L
\* with integers B, N, L
score_over(mean, q2, l) ==
    [B |-> 2 * mean[1] * (l \div mean[2]),
     N |-> 4 * (l \div q2[2]) * (l \div q2[2]) * q2[1] * q2[2],
     L |-> 2 * l]
score_parts(mean, q2) == score_over(mean, q2, mean[2] * (q2[2] \div GCD(mean[2], q2[2])))
exact_score(stat, context) ==
    score_parts(estimate(stat, context).mean,
                RMul(RMul(ALPHA, ALPHA), estimate(stat, context).variance))
\* s < t, decided on four decimals of the two roots:
\* t.L * sqrt(s.N) - s.L * sqrt(t.N) < s.L * t.B - t.L * s.B
smaller(s, t) ==
    floor_sqrt_e4(t.L * t.L * s.N) + 1 - floor_sqrt_e4(s.L * s.L * t.N)
        <= 10000 * (s.L * t.B - t.L * s.B)

C27_Step ==
    (nRl' = nRl + 1 /\ rl_ret'.op = "select_action") =>
        LET exact == [a \in Arms |-> exact_score(bandit.stats[a], rl_ret'.context)]
        IN  /\ \A a \in Arms : ~smaller(exact[rl_ret'.action_idx], exact[a])
            /\ \A a \in Arms : a < rl_ret'.action_idx => exact[a] # exact[rl_ret'.action_idx]
            /\ rl_ret'.action_idx = select_action(bandit, rl_ret'.context).action_idx

\* C27: select_action returns an arm whose UCB score theta_a . x +
\* alpha * sqrt(x . inv(A_a) . x) is the largest of the five arms, and the
\* lowest index among the arms with that score; the choice is a function of
\* the arms' statistics and the context alone.
C27_SelectsFirstBestArm == [][C27_Step]_vars

\* ---- C28 ----
C28_OnlineStateKept ==
    nRlhf' = nRlhf + 1 =>
        /\ bandit' = bandit
        /\ weights_file' = weights_file
        /\ session_rl' = session_rl
C28_Averages(stats) ==
    \A a \in DOMAIN stats :
        /\ DOMAIN stats[a] = {"n_samples", "total_reward", "avg_reward"}
        /\ stats[a].n_samples > 0 =>
              stats[a].avg_reward = RDiv(stats[a].total_reward, Rat(stats[a].n_samples, 1))
C28_Step == C28_OnlineStateKept /\ C28_Averages(arms')

\* C28: neither the weekly run nor rlhf_feedback changes the online LinUCB
\* state, the arms' A and b that select_strategy uses and the online weights
\* file; the run changes the arm statistics n_samples, total_reward and
\* avg_reward, kept in a file of their own, with avg_reward = total_reward /
\* n_samples for an arm with samples, and the retrieval preferences.
C28_WeeklyRunLeavesOnlineStateAlone == [][C28_Step]_vars

\* a weekly run that updated an arm, in a process whose online bandit has
\* learnt from a rating and saved its weights
C28_Witness ==
    /\ bandit # None /\ \E a \in Arms : bandit.stats[a] # ActionStats
    /\ weights_file # None /\ weights_file.kind = "weights"
    /\ report # None /\ report.status = "success"
    /\ \E a \in DOMAIN arms : arms[a].n_samples > 0

\* ---- C29 ----
HALLUCINATION_CAP == 14400        \* 0.60, the clamped confidence less the 0.4 penalty at most
flagged_hallucination == result.hallucination # None /\ result.hallucination.is_hallucination

\* C29: in every result of score, escalate_to_ca implies add_disclaimer and
\* the CA-review disclaimer text: with a hallucination found the clamped
\* confidence is at most 0.60, below the disclaimer threshold 0.65, and every
\* other escalation has a confidence below 0.50.
C29_EscalationCarriesDisclaimer ==
    (result # None /\ result.escalate_to_ca) =>
        /\ result.add_disclaimer
        /\ result.disclaimer_text = "flagged_for_ca_review"
        /\ flagged_hallucination =>
              call.confidence <= HALLUCINATION_CAP /\ HALLUCINATION_CAP < DISCLAIMER_THRESHOLD
        /\ ~flagged_hallucination => call.confidence < ESCALATE_THRESHOLD

\* an answer escalated for a hallucination alone, with the confidence at the cap
C29_Witness ==
    /\ result # None /\ result.escalate_to_ca
    /\ flagged_hallucination
    /\ call.confidence = HALLUCINATION_CAP

\* ---- C30 ----
\* the arm and the context record_feedback hands to bandit.update
update_pair(state) == [action_idx |-> state.last_action_idx[1], context |-> state.last_context]
C30_Step ==
    (nRl' = nRl + 1 /\ rl_ret'.op = "record_feedback") =>
        LET before == get_session_rl_state(session_rl, rl_ret'.session_id)
            after  == session_rl'[rl_ret'.session_id]
        IN  IF rl_ret'.updated
            THEN /\ \E n \in DOMAIN chosen : chosen[n] = update_pair(before)
                 /\ after.feedback_count = before.feedback_count + 1
                 /\ after.feedback_sum = before.feedback_sum + reward_of(rl_ret'.rating)
            ELSE /\ after.feedback_count = before.feedback_count
                 /\ after.feedback_sum = before.feedback_sum

\* C30: with select_strategy and record_feedback of one session running in
\* parallel, the arm and the context handed to bandit.update always come from
\* one and the same select_strategy call, and feedback_sum and feedback_count
\* count exactly the ratings that caused an update.
C30_UpdateUsesOneSelection == [][C30_Step]_vars

====
